---------------------------- MODULE Spec2Model ----------------------------
(***************************************************************************)
(* mudpie: an embeddable HTTP/1.0-1.1 server.                              *)
(*                                                                         *)
(* The model follows the sources under src/src:                            *)
(*   utils/byteutils.rs         byte-slice helpers (operators)             *)
(*   utils/http_request.rs      parse of the header block (operator)       *)
(*   webserver/read_request.rs  read_request over a stream (operators)     *)
(*   webserver/write_response.rs                                           *)
(*   webserver/mod.rs           WebServer, worker_thread_main,             *)
(*                              process_http_connection, do_routing        *)
(*   threadpool.rs              ThreadPool, WorkerSentinel                 *)
(*                                                                         *)
(* Bytes are the integers 0..255.  A request arrives on a stream as a      *)
(* sequence of segments, one per successful read; what follows the last    *)
(* segment is an end of file (a read of 0 bytes) or a read error.          *)
(*                                                                         *)
(* A connection is owned by the one worker thread that accepted it and     *)
(* shares no state with any other thread, so the whole of                  *)
(* process_http_connection is one action of the worker; the reads and      *)
(* writes it performs on the stream are kept, in order, in the stream's    *)
(* log.  The steps that touch shared state (the watchdog mutex, counter    *)
(* and condition variable, the spawning of threads) are separate actions.  *)
(***************************************************************************)
EXTENDS Integers, Sequences, FiniteSets, TLC

(***************************************************************************)
(* Bounds of the model.                                                    *)
(***************************************************************************)
\* number of worker threads the application configures (set_num_threads)
NrThreads == 2
\* number of connections clients open in one behaviour
MaxConns == 2
\* the maximum request body size the application configures
MaxBodySize == 2
\* the most rules registered when routing is examined on its own
MaxRules == 2

(***************************************************************************)
(* Bytes and byte strings.                                                 *)
(***************************************************************************)
\* the printable ASCII characters, in order, starting at code 32 (code 96,
\* the grave accent, is named: it is used by no request of the model)
AsciiTable ==
  << " ", "!", "\"", "#", "$", "%", "&", "'", "(", ")", "*", "+", ",", "-",
     ".", "/", "0", "1", "2", "3", "4", "5", "6", "7", "8", "9", ":", ";",
     "<", "=", ">", "?", "@", "A", "B", "C", "D", "E", "F", "G", "H", "I",
     "J", "K", "L", "M", "N", "O", "P", "Q", "R", "S", "T", "U", "V", "W",
     "X", "Y", "Z", "[", "\\", "]", "^", "_", "grave", "a", "b", "c", "d", "e",
     "f", "g", "h", "i", "j", "k", "l", "m", "n", "o", "p", "q", "r", "s",
     "t", "u", "v", "w", "x", "y", "z", "{", "|", "}", "~" >>

\* the byte of a printable character
Ord(c) == 31 + (CHOOSE i \in 1..Len(AsciiTable) : AsciiTable[i] = c)

\* the byte string of a tuple of characters: B(<<"G","E","T">>) = b"GET"
B(t) == [i \in 1..Len(t) |-> Ord(t[i])]

CRLF == <<13, 10>>
CRLFCRLF == <<13, 10, 13, 10>>

\* src[from..to] of Rust, 0-based and half open
Slice(s, from, to) == SubSeq(s, from + 1, to)

\* Option<T>
None == [some |-> FALSE, val |-> 0]
Some(v) == [some |-> TRUE, val |-> v]

\* slice::starts_with / slice::ends_with
StartsWith(s, p) == Len(p) <= Len(s) /\ SubSeq(s, 1, Len(p)) = p
EndsWith(s, p) ==
  Len(p) <= Len(s) /\ SubSeq(s, Len(s) - Len(p) + 1, Len(s)) = p

\* u8::to_ascii_lowercase
LowerByte(b) == IF b >= 65 /\ b <= 90 THEN b + 32 ELSE b

\* variant: the letters keep their case
into_ascii_lowercase_kept(s) == s

\* Vec<u8>::into_ascii_lowercase
into_ascii_lowercase(s) == [i \in 1..Len(s) |-> LowerByte(s[i])]

(***************************************************************************)
(* utils/byteutils.rs                                                      *)
(***************************************************************************)
\* position (0-based) of the first occurrence of needle in haystack
memmem(haystack, needle) ==
  LET n == Len(needle)
      hits == { i \in 0..(Len(haystack) - n) : Slice(haystack, i, i + n) = needle }
  IN  IF hits = {} THEN None
      ELSE Some(CHOOSE i \in hits : \A j \in hits : i <= j)

\* variant: a split at every occurrence of b, whatever max_splits is
RECURSIVE split_bytes_on_every(_, _, _)
split_bytes_on_every(src, b, max_splits) ==
  LET hits == { i \in 1..Len(src) : src[i] = b }
  IN  IF hits = {} THEN << src >>
      ELSE LET p == CHOOSE i \in hits : \A j \in hits : i <= j
           IN  << SubSeq(src, 1, p - 1) >>
                 \o split_bytes_on_every(SubSeq(src, p + 1, Len(src)), b,
                                         max_splits)

\* variant: consecutive delimiters are collapsed, no segment is empty
split_bytes_on_collapsing(src, b, max_splits) ==
  SelectSeq(split_bytes_on_every(src, b, max_splits),
            LAMBDA piece : Len(piece) > 0)

\* src.splitn(max_splits, |f| f == b): at most max_splits splits, hence at
\* most max_splits + 1 pieces; the last piece is the unsplit remainder
RECURSIVE split_bytes_on(_, _, _)
split_bytes_on(src, b, max_splits) ==
  LET hits == { i \in 1..Len(src) : src[i] = b }
  IN  IF max_splits = 0 \/ hits = {} THEN << src >>
      ELSE LET p == CHOOSE i \in hits : \A j \in hits : i <= j
           IN  << SubSeq(src, 1, p - 1) >>
                 \o split_bytes_on(SubSeq(src, p + 1, Len(src)), b, max_splits - 1)

\* the elements of ret one after the other
RECURSIVE crlf_flat(_)
crlf_flat(ret) == IF Len(ret) = 0 THEN << >> ELSE Head(ret) \o crlf_flat(Tail(ret))

\* the loop of split_bytes_on_crlf from window current_idx on
RECURSIVE crlf_loop(_, _, _)
crlf_loop(src, start_idx, current_idx) ==
  IF current_idx + 2 > Len(src) THEN << >>
  ELSE IF Slice(src, current_idx, current_idx + 2) = CRLF
       THEN << Slice(src, start_idx, current_idx) >>
              \o crlf_loop(src, current_idx + 2, current_idx + 1)
       ELSE crlf_loop(src, start_idx, current_idx + 1)

\* variant: a final element without a trailing CRLF is returned as well
split_bytes_on_crlf_with_rest(src) ==
  LET ret == crlf_loop(src, 0, 0)
      used == Len(ret) * 2 + Len(crlf_flat(ret))
  IN  IF used < Len(src) THEN Append(ret, Slice(src, used, Len(src))) ELSE ret

split_bytes_on_crlf(src) == crlf_loop(src, 0, 0)

to_hexval(byte) ==
  IF byte >= 65 /\ byte <= 70 THEN Some(byte - 65 + 10)
  ELSE IF byte >= 97 /\ byte <= 102 THEN Some(byte - 97 + 10)
  ELSE IF byte >= 48 /\ byte <= 57 THEN Some(byte - 48)
  ELSE None

to_decval(byte) ==
  IF byte >= 48 /\ byte <= 57 THEN Some(byte - 48) ELSE None

\* variant: an escape needs one more byte after its two digits
RECURSIVE percent_loop_short(_, _)
percent_loop_short(input, i) ==
  IF i = Len(input) THEN << >>
  ELSE IF /\ input[i + 1] = 37
          /\ i + 3 < Len(input)
          /\ to_hexval(input[i + 2]).some
          /\ to_hexval(input[i + 3]).some
       THEN << ((to_hexval(input[i + 2]).val * 16) % 256)
                 + to_hexval(input[i + 3]).val >>
              \o percent_loop_short(input, i + 3)
       ELSE << input[i + 1] >> \o percent_loop_short(input, i + 1)

percent_decode_short(input) == percent_loop_short(input, 0)

\* the loop of percent_decode from index i on (0-based)
RECURSIVE percent_loop(_, _)
percent_loop(input, i) ==
  IF i = Len(input) THEN << >>
  ELSE IF /\ input[i + 1] = 37
          /\ i + 2 < Len(input)
          /\ to_hexval(input[i + 2]).some
          /\ to_hexval(input[i + 3]).some
       THEN << ((to_hexval(input[i + 2]).val * 16) % 256)
                 + to_hexval(input[i + 3]).val >>
              \o percent_loop(input, i + 3)
       ELSE << input[i + 1] >> \o percent_loop(input, i + 1)

\* variant: the escapes are left as they are
percent_decode_kept(input) == input

percent_decode(input) == percent_loop(input, 0)

RECURSIVE lstrip(_)
lstrip(input) ==
  IF Len(input) > 0 /\ input[1] = 32 THEN lstrip(Tail(input)) ELSE input

RECURSIVE rstrip(_)
rstrip(input) ==
  IF Len(input) > 0 /\ input[Len(input)] = 32
  THEN rstrip(SubSeq(input, 1, Len(input) - 1))
  ELSE input

\* variant: only the leading spaces are removed
strip_leading(input) == lstrip(input)

strip(input) == lstrip(rstrip(input))

(***************************************************************************)
(* u64: a 64-bit unsigned integer is kept as its four 16-bit limbs, least  *)
(* significant first, because the integers of the model checker are narrower.    *)
(* Arithmetic wraps modulo 2^64, as unchecked arithmetic does.             *)
(***************************************************************************)
Limb == 65536

u64_of(n) == << n % Limb, n \div Limb, 0, 0 >>

\* the value of a u64 that is below 2^31
nat_of(v) == v[1] + Limb * v[2]

\* ret * 10 + n, wrapping
u64_mul10_add(v, n) ==
  LET t1 == v[1] * 10 + n
      t2 == v[2] * 10 + (t1 \div Limb)
      t3 == v[3] * 10 + (t2 \div Limb)
      t4 == v[4] * 10 + (t3 \div Limb)
  IN  << t1 % Limb, t2 % Limb, t3 % Limb, t4 % Limb >>

\* a > b on u64
u64_gt(a, b) ==
  \E i \in 1..4 : a[i] > b[i] /\ \A j \in (i + 1)..4 : a[j] = b[j]

\* the loop of parse_u64 over input[i..], with ret the value so far
RECURSIVE parse_u64_loop(_, _, _)
parse_u64_loop(input, i, ret) ==
  IF i > Len(input) THEN Some(ret)
  ELSE IF to_decval(input[i]).some
       THEN parse_u64_loop(input, i + 1,
                           u64_mul10_add(ret, to_decval(input[i]).val))
       ELSE None

\* variant: the digits before the first other byte are the value
RECURSIVE parse_u64_prefix_loop(_, _, _)
parse_u64_prefix_loop(input, i, ret) ==
  IF i > Len(input) \/ ~to_decval(input[i]).some THEN Some(ret)
  ELSE parse_u64_prefix_loop(input, i + 1,
                             u64_mul10_add(ret, to_decval(input[i]).val))

parse_u64_prefix(input) ==
  IF Len(input) = 0 THEN None ELSE parse_u64_prefix_loop(input, 1, u64_of(0))

parse_u64(input) ==
  IF Len(input) = 0 THEN None ELSE parse_u64_loop(input, 1, u64_of(0))

\* ret * 10 + n does not fit in a u64
u64_overflows(v, n) ==
  LET t1 == v[1] * 10 + n
      t2 == v[2] * 10 + (t1 \div Limb)
      t3 == v[3] * 10 + (t2 \div Limb)
      t4 == v[4] * 10 + (t3 \div Limb)
  IN  t4 >= Limb

\* whether the loop of parse_u64 reaches an addition that overflows; a
\* build with overflow checks panics there, a build without them wraps
RECURSIVE parse_u64_overflow_loop(_, _, _)
parse_u64_overflow_loop(input, i, ret) ==
  IF i > Len(input) \/ ~to_decval(input[i]).some THEN FALSE
  ELSE \/ u64_overflows(ret, to_decval(input[i]).val)
       \/ parse_u64_overflow_loop(input, i + 1,
                                  u64_mul10_add(ret, to_decval(input[i]).val))

parse_u64_overflows(input) == parse_u64_overflow_loop(input, 1, u64_of(0))

(***************************************************************************)
(* String::from_utf8_lossy.  A String is the sequence of its code points.  *)
(* A byte that does not start a well-formed UTF-8 sequence becomes U+FFFD. *)
(***************************************************************************)
REPLACEMENT == 65533

IsCont(s, i) == i <= Len(s) /\ s[i] >= 128 /\ s[i] <= 191

\* the number of bytes of the well-formed sequence that starts at s[i], or 0
Utf8Width(s, i) ==
  LET b == s[i]
  IN  IF b < 128 THEN 1
      ELSE IF b >= 194 /\ b <= 223 /\ IsCont(s, i + 1) THEN 2
      ELSE IF /\ b >= 224 /\ b <= 239
              /\ IsCont(s, i + 1) /\ IsCont(s, i + 2)
              /\ (b = 224 => s[i + 1] >= 160)
              /\ (b = 237 => s[i + 1] <= 159) THEN 3
      ELSE IF /\ b >= 240 /\ b <= 244
              /\ IsCont(s, i + 1) /\ IsCont(s, i + 2) /\ IsCont(s, i + 3)
              /\ (b = 240 => s[i + 1] >= 144)
              /\ (b = 244 => s[i + 1] <= 143) THEN 4
      ELSE 0

Utf8Char(s, i, w) ==
  IF w = 1 THEN s[i]
  ELSE IF w = 2 THEN (s[i] - 192) * 64 + (s[i + 1] - 128)
  ELSE IF w = 3
       THEN (s[i] - 224) * 4096 + (s[i + 1] - 128) * 64 + (s[i + 2] - 128)
  ELSE (s[i] - 240) * 262144 + (s[i + 1] - 128) * 4096
         + (s[i + 2] - 128) * 64 + (s[i + 3] - 128)

RECURSIVE utf8_loop(_, _)
utf8_loop(s, i) ==
  IF i > Len(s) THEN << >>
  ELSE LET w == Utf8Width(s, i)
       IN  IF w = 0 THEN << REPLACEMENT >> \o utf8_loop(s, i + 1)
           ELSE << Utf8Char(s, i, w) >> \o utf8_loop(s, i + w)

from_utf8_lossy(s) == utf8_loop(s, 1)

(***************************************************************************)
(* utils/http_request.rs                                                   *)
(***************************************************************************)
\* HashMap::insert
MapInsert(m, k, v) ==
  [x \in (DOMAIN m) \cup {k} |-> IF x = k THEN v ELSE m[x]]

EmptyMap == [x \in {} |-> << >>]

K_method == B(<<"m","e","t","h","o","d">>)
K_protocol == B(<<"p","r","o","t","o","c","o","l">>)
K_path == B(<<"p","a","t","h">>)
K_query_string == B(<<"q","u","e","r","y","_","s","t","r","i","n","g">>)
K_http_ == B(<<"h","t","t","p","_">>)
HTTP10 == B(<<"h","t","t","p","/","1",".","0">>)
HTTP11 == B(<<"h","t","t","p","/","1",".","1">>)
OPTIONS == B(<<"o","p","t","i","o","n","s">>)

ParseErr(e) ==
  [ok |-> FALSE, err |-> e, environ |-> EmptyMap, path |-> << >>,
   method |-> << >>]

\* variant: a header is stored under its lowercased name alone
RECURSIVE header_loop_bare_names(_, _, _)
header_loop_bare_names(lines, i, environ) ==
  IF i > Len(lines) \/ Len(lines[i]) = 0
  THEN [err |-> "", environ |-> environ]
  ELSE LET header_parts == split_bytes_on(lines[i], 58, 1)
       IN  IF Len(header_parts) # 2
           THEN [err |-> "InvalidHeaderSeparator", environ |-> environ]
           ELSE IF strip(header_parts[1]) # header_parts[1]
           THEN [err |-> "InvalidHeaderWhitespace", environ |-> environ]
           ELSE LET nice_header_name ==
                      into_ascii_lowercase(header_parts[1])
                    header_value == strip(header_parts[2])
                IN  IF nice_header_name \in DOMAIN environ
                    THEN header_loop_bare_names(lines, i + 1,
                           MapInsert(environ, nice_header_name,
                             environ[nice_header_name] \o <<44>>
                               \o header_value))
                    ELSE header_loop_bare_names(lines, i + 1,
                           MapInsert(environ, nice_header_name, header_value))

\* variant: a repeated header replaces the earlier value
RECURSIVE header_loop_newest_only(_, _, _)
header_loop_newest_only(lines, i, environ) ==
  IF i > Len(lines) \/ Len(lines[i]) = 0
  THEN [err |-> "", environ |-> environ]
  ELSE LET header_parts == split_bytes_on(lines[i], 58, 1)
       IN  IF Len(header_parts) # 2
           THEN [err |-> "InvalidHeaderSeparator", environ |-> environ]
           ELSE IF strip(header_parts[1]) # header_parts[1]
           THEN [err |-> "InvalidHeaderWhitespace", environ |-> environ]
           ELSE LET nice_header_name ==
                      into_ascii_lowercase(K_http_ \o header_parts[1])
                    header_value == strip(header_parts[2])
                IN  IF nice_header_name \in DOMAIN environ
                    THEN header_loop_newest_only(lines, i + 1,
                           MapInsert(environ, nice_header_name,
                             header_value))
                    ELSE header_loop_newest_only(lines, i + 1,
                           MapInsert(environ, nice_header_name, header_value))

\* variant: a repeated header puts its value before the earlier ones
RECURSIVE header_loop_newest_first(_, _, _)
header_loop_newest_first(lines, i, environ) ==
  IF i > Len(lines) \/ Len(lines[i]) = 0
  THEN [err |-> "", environ |-> environ]
  ELSE LET header_parts == split_bytes_on(lines[i], 58, 1)
       IN  IF Len(header_parts) # 2
           THEN [err |-> "InvalidHeaderSeparator", environ |-> environ]
           ELSE IF strip(header_parts[1]) # header_parts[1]
           THEN [err |-> "InvalidHeaderWhitespace", environ |-> environ]
           ELSE LET nice_header_name ==
                      into_ascii_lowercase(K_http_ \o header_parts[1])
                    header_value == strip(header_parts[2])
                IN  IF nice_header_name \in DOMAIN environ
                    THEN header_loop_newest_first(lines, i + 1,
                           MapInsert(environ, nice_header_name,
                             header_value \o <<44>>
                               \o environ[nice_header_name]))
                    ELSE header_loop_newest_first(lines, i + 1,
                           MapInsert(environ, nice_header_name, header_value))

\* the header loop of parse: lines[i..] into environ; err is "" on success
RECURSIVE header_loop(_, _, _)
header_loop(lines, i, environ) ==
  IF i > Len(lines) \/ Len(lines[i]) = 0
  THEN [err |-> "", environ |-> environ]
  ELSE LET header_parts == split_bytes_on(lines[i], 58, 1)
       IN  IF Len(header_parts) # 2
           THEN [err |-> "InvalidHeaderSeparator", environ |-> environ]
           ELSE IF strip(header_parts[1]) # header_parts[1]
           THEN [err |-> "InvalidHeaderWhitespace", environ |-> environ]
           ELSE LET nice_header_name ==
                      into_ascii_lowercase(K_http_ \o header_parts[1])
                    header_value == strip(header_parts[2])
                IN  IF nice_header_name \in DOMAIN environ
                    THEN header_loop(lines, i + 1,
                           MapInsert(environ, nice_header_name,
                             environ[nice_header_name] \o <<44>>
                               \o header_value))
                    ELSE header_loop(lines, i + 1,
                           MapInsert(environ, nice_header_name, header_value))

\* variant: the target is split at its second '?' as well
parse_target_every_mark(lines, method, path, protocol) ==
  LET environ0 == MapInsert(MapInsert(EmptyMap, K_method, method),
                            K_protocol, protocol)
      star == method = OPTIONS /\ path = <<42>>
      parts == split_bytes_on(path, 63, 2)
      environ1 ==
        IF star \/ Len(parts) <= 1
        THEN MapInsert(MapInsert(environ0, K_path, path),
                       K_query_string, << >>)
        ELSE MapInsert(MapInsert(environ0, K_path, parts[1]),
                       K_query_string, parts[2])
      hdrs == header_loop(lines, 2, environ1)
  IN  IF ~star /\ path[1] # 47 THEN ParseErr("InvalidAbsolutePath")
      ELSE IF hdrs.err # "" THEN ParseErr(hdrs.err)
      ELSE [ok |-> TRUE, err |-> "", environ |-> hdrs.environ,
            path |-> from_utf8_lossy(percent_decode(environ1[K_path])),
            method |-> from_utf8_lossy(method)]

\* parse after the request line has been split into three parts
parse_target(lines, method, path, protocol) ==
  LET environ0 == MapInsert(MapInsert(EmptyMap, K_method, method),
                            K_protocol, protocol)
      star == method = OPTIONS /\ path = <<42>>
      parts == split_bytes_on(path, 63, 1)
      environ1 ==
        IF star \/ Len(parts) <= 1
        THEN MapInsert(MapInsert(environ0, K_path, path),
                       K_query_string, << >>)
        ELSE MapInsert(MapInsert(environ0, K_path, parts[1]),
                       K_query_string, parts[2])
      hdrs == header_loop(lines, 2, environ1)
  IN  IF ~star /\ path[1] # 47 THEN ParseErr("InvalidAbsolutePath")
      ELSE IF hdrs.err # "" THEN ParseErr(hdrs.err)
      ELSE [ok |-> TRUE, err |-> "", environ |-> hdrs.environ,
            path |-> from_utf8_lossy(percent_decode(environ1[K_path])),
            method |-> from_utf8_lossy(method)]

\* variant: the protocol is examined after the target and the headers
parse_version_last(request_bytes) ==
  IF ~EndsWith(request_bytes, CRLFCRLF) THEN ParseErr("Panic")
  ELSE LET lines == split_bytes_on_crlf(request_bytes)
           request_parts == split_bytes_on(lines[1], 32, 2)
       IN  IF Len(request_parts) # 3 THEN ParseErr("BadRequestLine")
           ELSE LET method == into_ascii_lowercase(request_parts[1])
                    path == request_parts[2]
                    protocol == into_ascii_lowercase(request_parts[3])
                    rest == parse_target(lines, method, path, protocol)
                IN  IF Len(method) = 0 \/ Len(path) = 0 \/ Len(protocol) = 0
                    THEN ParseErr("BadRequestLine")
                    ELSE IF ~rest.ok THEN rest
                    ELSE IF protocol # HTTP10 /\ protocol # HTTP11
                    THEN ParseErr("BadVersion")
                    ELSE rest

\* parse(request_bytes): Result<Request, ParseError>; the failed assertion
\* of the precondition is the result "Panic"
parse(request_bytes) ==
  IF ~EndsWith(request_bytes, CRLFCRLF) THEN ParseErr("Panic")
  ELSE LET lines == split_bytes_on_crlf(request_bytes)
           request_parts == split_bytes_on(lines[1], 32, 2)
       IN  IF Len(request_parts) # 3 THEN ParseErr("BadRequestLine")
           ELSE LET method == into_ascii_lowercase(request_parts[1])
                    path == request_parts[2]
                    protocol == into_ascii_lowercase(request_parts[3])
                IN  IF Len(method) = 0 \/ Len(path) = 0 \/ Len(protocol) = 0
                    THEN ParseErr("BadRequestLine")
                    ELSE IF protocol # HTTP10 /\ protocol # HTTP11
                    THEN ParseErr("BadVersion")
                    ELSE parse_target(lines, method, path, protocol)

(***************************************************************************)
(* The stream of a connection (utils/genericsocket.rs: GenericSocket).     *)
(*   segs   what the peer sent and has not been read: one segment per read *)
(*   end    what a read finds once segs is empty: "eof" (0 bytes) or "err" *)
(*   wok    how many more write_all calls succeed before one fails         *)
(*   log    the reads and writes performed on the stream so far, in order  *)
(***************************************************************************)
\* chunk_size of read_until_headers_end and read_until_size
chunk_size == 4096

Event(op, n, data) == [op |-> op, n |-> n, data |-> data]

\* GenericSocket::read into a buffer of chunk_size bytes
read(s) ==
  IF s.segs = << >>
  THEN IF s.end = "eof"
       THEN [ok |-> TRUE, data |-> << >>,
             s |-> [s EXCEPT !.log = Append(@, Event("read", 0, << >>))]]
       ELSE [ok |-> FALSE, data |-> << >>,
             s |-> [s EXCEPT !.log = Append(@, Event("read_err", 0, << >>))]]
  ELSE LET seg == Head(s.segs)
           n == IF Len(seg) <= chunk_size THEN Len(seg) ELSE chunk_size
           rest == IF n = Len(seg) THEN Tail(s.segs)
                   ELSE << SubSeq(seg, n + 1, Len(seg)) >> \o Tail(s.segs)
       IN  [ok |-> TRUE, data |-> SubSeq(seg, 1, n),
            s |-> [s EXCEPT !.segs = rest,
                            !.log = Append(@, Event("read", n, << >>))]]

\* GenericSocket::write_all
write_all(s, buf) ==
  IF s.wok = 0
  THEN [ok |-> FALSE,
        s |-> [s EXCEPT !.log = Append(@, Event("write_err", Len(buf), buf))]]
  ELSE [ok |-> TRUE,
        s |-> [s EXCEPT !.wok = @ - 1,
                        !.log = Append(@, Event("write", Len(buf), buf))]]

(***************************************************************************)
(* webserver/read_request.rs                                               *)
(***************************************************************************)
\* variant: the terminator is looked for in the bytes of the last read only
RECURSIVE read_until_headers_end_last_read(_, _)
read_until_headers_end_last_read(buffer, s) ==
  LET r == read(s)
      buffer2 == buffer \o r.data
      split_pos == memmem(r.data, CRLFCRLF)
  IN  IF ~r.ok \/ Len(r.data) = 0
      THEN [ok |-> FALSE, val |-> 0, buffer |-> buffer, s |-> r.s]
      ELSE IF ~split_pos.some
      THEN read_until_headers_end_last_read(buffer2, r.s)
      ELSE [ok |-> TRUE, val |-> Len(buffer) + split_pos.val + 4,
            buffer |-> buffer2, s |-> r.s]

\* Result<usize, io::Error>, with the buffer and the stream as left behind
RECURSIVE read_until_headers_end(_, _)
read_until_headers_end(buffer, s) ==
  LET r == read(s)
      buffer2 == buffer \o r.data
      split_pos == memmem(buffer2, CRLFCRLF)
  IN  IF ~r.ok \/ Len(r.data) = 0
      THEN [ok |-> FALSE, val |-> 0, buffer |-> buffer, s |-> r.s]
      ELSE IF ~split_pos.some THEN read_until_headers_end(buffer2, r.s)
      ELSE [ok |-> TRUE, val |-> split_pos.val + 4, buffer |-> buffer2,
            s |-> r.s]

RECURSIVE read_until_size(_, _, _)
read_until_size(buffer, s, size) ==
  IF Len(buffer) >= size THEN [ok |-> TRUE, buffer |-> buffer, s |-> s]
  ELSE LET r == read(s)
       IN  IF ~r.ok \/ Len(r.data) = 0
           THEN [ok |-> FALSE, buffer |-> buffer, s |-> r.s]
           ELSE read_until_size(buffer \o r.data, r.s, size)

K_http_transfer_encoding ==
  K_http_ \o B(<<"t","r","a","n","s","f","e","r","-","e","n","c","o","d","i","n","g">>)
K_http_content_length ==
  K_http_ \o B(<<"c","o","n","t","e","n","t","-","l","e","n","g","t","h">>)
K_http_expect == K_http_ \o B(<<"e","x","p","e","c","t">>)
V_100_continue == B(<<"1","0","0","-","c","o","n","t","i","n","u","e">>)
Continue100 ==
  B(<<"H","T","T","P","/","1",".","1"," ","1","0","0"," ","C","o","n","t","i","n","u","e">>)
    \o CRLFCRLF

\* variant: the Expect value compared as it was sent
needs_100_continue_exact(req) ==
  /\ K_http_expect \in DOMAIN req.environ
  /\ req.environ[K_http_expect] = V_100_continue

needs_100_continue(req) ==
  /\ K_http_expect \in DOMAIN req.environ
  /\ into_ascii_lowercase(req.environ[K_http_expect]) = V_100_continue

NoRequest == [environ |-> EmptyMap, path |-> << >>, method |-> << >>,
              body |-> << >>]

\* Result<WebRequest, Error>: res is "Ok" or the name of the Error variant
ReadResult(res, req, s) == [res |-> res, req |-> req, s |-> s]

\* variant: the body buffer is handed on without truncating it
read_body_untruncated(req, req_buffer, req_size, clen, s) ==
  LET w == IF needs_100_continue(req) THEN write_all(s, Continue100)
           ELSE [ok |-> TRUE, s |-> s]
      body_buffer == SubSeq(req_buffer, req_size + 1, Len(req_buffer))
      rb == read_until_size(body_buffer, w.s, clen)
  IN  IF ~w.ok THEN ReadResult("IoError", NoRequest, w.s)
      ELSE IF ~rb.ok THEN ReadResult("IoError", NoRequest, rb.s)
      ELSE ReadResult("Ok",
             [environ |-> req.environ, path |-> req.path,
              method |-> req.method, body |-> rb.buffer],
             rb.s)

\* read_request once Content-Length parsed to clen, not above max_size
read_body(req, req_buffer, req_size, clen, s) ==
  LET w == IF needs_100_continue(req) THEN write_all(s, Continue100)
           ELSE [ok |-> TRUE, s |-> s]
      body_buffer == SubSeq(req_buffer, req_size + 1, Len(req_buffer))
      rb == read_until_size(body_buffer, w.s, clen)
  IN  IF ~w.ok THEN ReadResult("IoError", NoRequest, w.s)
      ELSE IF ~rb.ok THEN ReadResult("IoError", NoRequest, rb.s)
      ELSE ReadResult("Ok",
             [environ |-> req.environ, path |-> req.path,
              method |-> req.method, body |-> SubSeq(rb.buffer, 1, clen)],
             rb.s)

\* variant: only the chunked transfer encoding is looked for
has_transfer_encoding_chunked(req) ==
  /\ K_http_transfer_encoding \in DOMAIN req.environ
  /\ req.environ[K_http_transfer_encoding] = B(<<"c","h","u","n","k","e","d">>)

\* req.environ.contains_key(b"http_transfer-encoding")
has_transfer_encoding(req) == K_http_transfer_encoding \in DOMAIN req.environ

\* variant: a length equal to the maximum counts as too large
too_large_or_equal(clen, max_size) == ~u64_gt(u64_of(max_size), clen)

\* clen > max_size as u64
too_large(clen, max_size) == u64_gt(clen, u64_of(max_size))

\* variant: the 100 Continue is written as soon as the request is parsed
read_request_continue_first(stream, max_size) ==
  LET h == read_until_headers_end(<< >>, stream)
      req == parse(SubSeq(h.buffer, 1, h.val))
      clen == parse_u64(req.environ[K_http_content_length])
      s == IF h.ok /\ req.ok /\ needs_100_continue(req)
           THEN write_all(h.s, Continue100).s ELSE h.s
  IN  IF ~h.ok THEN ReadResult("IoError", NoRequest, s)
      ELSE IF ~req.ok /\ req.err = "BadVersion"
      THEN ReadResult("InvalidVersion", NoRequest, s)
      ELSE IF ~req.ok THEN ReadResult("InvalidRequest", NoRequest, s)
      ELSE IF has_transfer_encoding(req)
      THEN ReadResult("LengthRequired", NoRequest, s)
      ELSE IF K_http_content_length \notin DOMAIN req.environ
      THEN ReadResult("Ok",
             [environ |-> req.environ, path |-> req.path,
              method |-> req.method, body |-> << >>], s)
      ELSE IF ~clen.some THEN ReadResult("InvalidRequest", NoRequest, s)
      ELSE IF too_large(clen.val, max_size)
      THEN ReadResult("TooLarge", NoRequest, s)
      ELSE read_body(req, h.buffer, h.val, nat_of(clen.val), s)

\* read_request: Result<WebRequest, Error>, with the stream as left behind
read_request(stream, max_size) ==
  LET h == read_until_headers_end(<< >>, stream)
      req == parse(SubSeq(h.buffer, 1, h.val))
      clen == parse_u64(req.environ[K_http_content_length])
  IN  IF ~h.ok THEN ReadResult("IoError", NoRequest, h.s)
      ELSE IF ~req.ok /\ req.err = "BadVersion"
      THEN ReadResult("InvalidVersion", NoRequest, h.s)
      ELSE IF ~req.ok THEN ReadResult("InvalidRequest", NoRequest, h.s)
      ELSE IF has_transfer_encoding(req)
      THEN ReadResult("LengthRequired", NoRequest, h.s)
      ELSE IF K_http_content_length \notin DOMAIN req.environ
      THEN ReadResult("Ok",
             [environ |-> req.environ, path |-> req.path,
              method |-> req.method, body |-> << >>], h.s)
      ELSE IF ~clen.some THEN ReadResult("InvalidRequest", NoRequest, h.s)
      ELSE IF too_large(clen.val, max_size)
      THEN ReadResult("TooLarge", NoRequest, h.s)
      ELSE read_body(req, h.buffer, h.val, nat_of(clen.val), h.s)

\* read_request reaches parse_u64 with a Content-Length that overflows
read_request_overflows(stream) ==
  LET h == read_until_headers_end(<< >>, stream)
      req == parse(SubSeq(h.buffer, 1, h.val))
  IN  /\ h.ok
      /\ req.ok
      /\ K_http_transfer_encoding \notin DOMAIN req.environ
      /\ K_http_content_length \in DOMAIN req.environ
      /\ parse_u64_overflows(req.environ[K_http_content_length])

(***************************************************************************)
(* webserver/mod.rs: WebResponse                                           *)
(***************************************************************************)
\* format!("{}", n) of a non-negative integer
RECURSIVE Decimal(_)
Decimal(n) ==
  IF n < 10 THEN << 48 + n >> ELSE Decimal(n \div 10) \o << 48 + (n % 10) >>

S_OK == B(<<"O","K">>)

\* WebResponse::new
WebResponse_new ==
  [code |-> 200, status |-> S_OK, body |-> << >>, headers |-> EmptyMap]

set_code(resp, code, status) ==
  [resp EXCEPT !.code = code, !.status = status]

set_body_str(resp, body) == [resp EXCEPT !.body = body]

set_header(resp, name, value) ==
  [resp EXCEPT !.headers = MapInsert(@, name, value)]

H_ContentType == B(<<"C","o","n","t","e","n","t","-","T","y","p","e">>)
V_TextHtml ==
  B(<<"t","e","x","t","/","h","t","m","l",";"," ","c","h","a","r","s","e","t","=","u","t","f","-","8">>)

\* WebResponse::new_html
new_html(body) ==
  set_header(set_body_str(WebResponse_new, body), H_ContentType, V_TextHtml)

(***************************************************************************)
(* webserver/write_response.rs                                             *)
(***************************************************************************)
P_HTTP10 == B(<<"H","T","T","P","/","1",".","0">>)
P_HTTP11 == B(<<"H","T","T","P","/","1",".","1">>)
L_ConnectionClose ==
  B(<<"C","o","n","n","e","c","t","i","o","n",":"," ","c","l","o","s","e">>) \o CRLF
L_ContentLength ==
  B(<<"C","o","n","t","e","n","t","-","L","e","n","g","t","h",":"," ">>)
M_head == B(<<"h","e","a","d">>)

\* Option<&WebRequest>
NoReq == [some |-> FALSE, val |-> NoRequest]

\* the header lines of response.headers, in the iteration order `order`
RECURSIVE header_lines(_, _)
header_lines(headers, order) ==
  IF order = << >> THEN << >>
  ELSE Head(order) \o <<58, 32>> \o headers[Head(order)] \o CRLF
         \o header_lines(headers, Tail(order))

\* variant: the status line names HTTP/1.1 whatever the request declared
response_head_http11(request, response, order) ==
  P_HTTP11 \o <<32>> \o Decimal(response.code) \o <<32>>
    \o response.status \o CRLF
    \o L_ConnectionClose
    \o L_ContentLength \o Decimal(Len(response.body)) \o CRLF
    \o header_lines(response.headers, order)
    \o CRLF

\* variant: the length announced is that of the body that will be sent
response_head_sent_length(request, response, order) ==
  LET protocol == IF request.some
                     /\ request.val.environ[K_protocol] = HTTP10
                  THEN P_HTTP10 ELSE P_HTTP11
      sent == IF request.some /\ request.val.method = M_head THEN 0
              ELSE Len(response.body)
  IN  protocol \o <<32>> \o Decimal(response.code) \o <<32>>
        \o response.status \o CRLF
        \o L_ConnectionClose
        \o L_ContentLength \o Decimal(sent) \o CRLF
        \o header_lines(response.headers, order)
        \o CRLF

\* the String resp of write_response
response_head(request, response, order) ==
  LET protocol == IF request.some
                     /\ request.val.environ[K_protocol] = HTTP10
                  THEN P_HTTP10 ELSE P_HTTP11
  IN  protocol \o <<32>> \o Decimal(response.code) \o <<32>>
        \o response.status \o CRLF
        \o L_ConnectionClose
        \o L_ContentLength \o Decimal(Len(response.body)) \o CRLF
        \o header_lines(response.headers, order)
        \o CRLF

\* variant: the body is sent whatever the method of the request
write_response_with_body(stream, request, response, order) ==
  LET ioret == write_all(stream, response_head(request, response, order))
  IN  IF ~ioret.ok THEN ioret.s ELSE write_all(ioret.s, response.body).s

\* println! of one of the error reports of write_response: the stream, with
\* the report added to what the process printed for this connection
println(s, report) == [s EXCEPT !.out = Append(@, report)]

\* variant: the report of the body write looks at the result of the body
\* write
write_response_body_checked(stream, request, response, order) ==
  LET ioret == write_all(stream, response_head(request, response, order))
      send_body == ~(request.some /\ request.val.method = M_head)
  IN  IF ~ioret.ok
      THEN println(ioret.s, "error sending response headers")
      ELSE IF send_body
      THEN LET _ioret == write_all(ioret.s, response.body)
           IN  IF ~_ioret.ok
               THEN println(_ioret.s, "error sending response body")
               ELSE _ioret.s
      ELSE ioret.s

\* write_response(stream, request, response): the stream it leaves behind;
\* order is the iteration order of the HashMap response.headers.  After the
\* body write it is ioret, the result of the write of the head, that is
\* tested, and _ioret, the result of the body write, is not looked at.
write_response(stream, request, response, order) ==
  LET ioret == write_all(stream, response_head(request, response, order))
      send_body == ~(request.some /\ request.val.method = M_head)
  IN  IF ~ioret.ok
      THEN println(ioret.s, "error sending response headers")
      ELSE IF send_body
      THEN LET _ioret == write_all(ioret.s, response.body)
           IN  IF ~ioret.ok
               THEN println(_ioret.s, "error sending response body")
               ELSE _ioret.s
      ELSE ioret.s

(***************************************************************************)
(* webserver/mod.rs: rules and routing                                     *)
(***************************************************************************)
\* char::is_whitespace on the ASCII range, as str::trim uses it
IsWhite(c) == c \in {9, 10, 11, 12, 13, 32}

RECURSIVE trim(_)
trim(str) ==
  IF Len(str) > 0 /\ IsWhite(str[1]) THEN trim(Tail(str))
  ELSE IF Len(str) > 0 /\ IsWhite(str[Len(str)])
       THEN trim(SubSeq(str, 1, Len(str) - 1))
       ELSE str

\* methods.split_str(",")
RECURSIVE split_str_comma(_)
split_str_comma(str) ==
  LET hits == { i \in 1..Len(str) : str[i] = 44 }
  IN  IF hits = {} THEN << str >>
      ELSE LET p == CHOOSE i \in hits : \A j \in hits : i <= j
           IN  << SubSeq(str, 1, p - 1) >>
                 \o split_str_comma(SubSeq(str, p + 1, Len(str)))

\* WebServer::parse_methods: the methods in lowercase
parse_methods(methods) ==
  LET parts == split_str_comma(methods)
  IN  [i \in 1..Len(parts) |-> into_ascii_lowercase(trim(parts[i]))]

DispatchRule(path, is_prefix, methods, page_fn) ==
  [path |-> path, is_prefix |-> is_prefix, methods |-> methods,
   page_fn |-> page_fn]

\* RoutingResult
FoundRule(page_fn) == [kind |-> "FoundRule", page_fn |-> page_fn, methods |-> {}]
NoPathMatch == [kind |-> "NoPathMatch", page_fn |-> "", methods |-> {}]
NoMethodMatch(methods) ==
  [kind |-> "NoMethodMatch", page_fn |-> "", methods |-> methods]

\* variant: only the first method of a rule is remembered
RECURSIVE methods_loop_first(_, _, _, _)
methods_loop_first(methods, j, req_method, found_methods) ==
  IF j > Len(methods) THEN [found |-> FALSE, found_methods |-> found_methods]
  ELSE IF methods[j] = req_method
       THEN [found |-> TRUE,
             found_methods |-> found_methods \cup {methods[j]}]
       ELSE methods_loop_first(methods, j + 1, req_method,
              IF j = 1 THEN found_methods \cup {methods[j]}
              ELSE found_methods)

\* the inner loop of do_routing over rule.methods[j..]: whether the request
\* method is found, and the methods inserted into found_methods on the way
RECURSIVE methods_loop(_, _, _, _)
methods_loop(methods, j, req_method, found_methods) ==
  IF j > Len(methods) THEN [found |-> FALSE, found_methods |-> found_methods]
  ELSE IF methods[j] = req_method
       THEN [found |-> TRUE,
             found_methods |-> found_methods \cup {methods[j]}]
       ELSE methods_loop(methods, j + 1, req_method,
                         found_methods \cup {methods[j]})

\* the loop of do_routing over rules[i..]
RECURSIVE rules_loop(_, _, _, _, _)
rules_loop(rules, i, req, found_path_match, found_methods) ==
  IF i > Len(rules)
  THEN IF found_path_match THEN NoMethodMatch(found_methods) ELSE NoPathMatch
  ELSE LET rule == rules[i]
           matched == IF rule.is_prefix THEN StartsWith(req.path, rule.path)
                      ELSE req.path = rule.path
           m == methods_loop(rule.methods, 1, req.method, found_methods)
       IN  IF ~matched
           THEN rules_loop(rules, i + 1, req, found_path_match, found_methods)
           ELSE IF m.found THEN FoundRule(rule.page_fn)
           ELSE rules_loop(rules, i + 1, req, TRUE, m.found_methods)

\* variant: the rules are tried from the last registered to the first
do_routing_backwards(ctx, req) ==
  rules_loop([i \in 1..Len(ctx.rules) |-> ctx.rules[Len(ctx.rules) + 1 - i]],
             1, req, FALSE, {})

do_routing(ctx, req) == rules_loop(ctx.rules, 1, req, FALSE, {})

\* webserver/router.rs, Router::route: the inner loop over rule.methods[j..];
\* a method is remembered after it was compared
RECURSIVE route_methods_loop(_, _, _, _)
route_methods_loop(methods, j, req_method, found_methods) ==
  IF j > Len(methods) THEN [found |-> FALSE, found_methods |-> found_methods]
  ELSE IF methods[j] = req_method
       THEN [found |-> TRUE, found_methods |-> found_methods]
       ELSE route_methods_loop(methods, j + 1, req_method,
                               found_methods \cup {methods[j]})

\* Router::route: the loop over rules[i..]
RECURSIVE route_rules_loop(_, _, _, _, _)
route_rules_loop(rules, i, req, found_path_match, found_methods) ==
  IF i > Len(rules)
  THEN IF found_path_match THEN NoMethodMatch(found_methods) ELSE NoPathMatch
  ELSE LET rule == rules[i]
           matched == IF rule.is_prefix THEN StartsWith(req.path, rule.path)
                      ELSE req.path = rule.path
           m == route_methods_loop(rule.methods, 1, req.method, found_methods)
       IN  IF ~matched
           THEN route_rules_loop(rules, i + 1, req, found_path_match,
                                 found_methods)
           ELSE IF m.found THEN FoundRule(rule.page_fn)
           ELSE route_rules_loop(rules, i + 1, req, TRUE, m.found_methods)

\* Router::route
route(rules, req) == route_rules_loop(rules, 1, req, FALSE, {})

(***************************************************************************)
(* webserver/mod.rs: process_http_connection                               *)
(***************************************************************************)
\* the orders in which a HashMap or HashSet with the keys S may iterate
RECURSIVE Perms(_)
Perms(S) ==
  IF S = {} THEN { << >> }
  ELSE UNION { { << x >> \o p : p \in Perms(S \ {x}) } : x \in S }

\* variant: only the first method is kept
connect_first(strs) == IF strs = << >> THEN << >> ELSE strs[1]

\* methods.connect(", ")
RECURSIVE connect(_)
connect(strs) ==
  IF strs = << >> THEN << >>
  ELSE IF Len(strs) = 1 THEN strs[1]
  ELSE strs[1] \o <<44, 32>> \o connect(Tail(strs))

ErrorResponse(code, status, body) ==
  set_body_str(set_code(WebResponse_new, code, status), body)

Resp400 ==
  ErrorResponse(400, B(<<"B","a","d"," ","R","e","q","u","e","s","t">>),
    B(<<"E","r","r","o","r"," ","4","0","0",":"," ","B","a","d"," ","R","e","q","u","e","s","t">>))
Resp411 ==
  ErrorResponse(411,
    B(<<"L","e","n","g","t","h"," ","R","e","q","u","i","r","e","d">>),
    B(<<"E","r","r","o","r"," ","4","1","1",":"," ","L","e","n","g","t","h"," ","R","e","q","u","i","r","e","d">>))
Resp505 ==
  ErrorResponse(505,
    B(<<"V","e","r","s","i","o","n"," ","n","o","t"," ","S","u","p","p","o","r","t","e","d">>),
    B(<<"E","r","r","o","r"," ","5","0","5",":"," ","V","e","r","s","i","o","n"," ","n","o","t"," ","S","u","p","p","o","r","t","e","d">>))
Resp413 ==
  ErrorResponse(413,
    B(<<"R","e","q","u","e","s","t"," ","E","n","t","i","t","y"," ","T","o","o"," ","L","a","r","g","e">>),
    B(<<"E","r","r","o","r"," ","4","1","3",":"," ","R","e","q","u","e","s","t"," ","E","n","t","i","t","y"," ","T","o","o"," ","L","a","r","g","e">>))
Resp404 ==
  ErrorResponse(404, B(<<"N","o","t"," ","F","o","u","n","d">>),
    B(<<"E","r","r","o","r"," ","4","0","4",":"," ","R","e","s","o","u","r","c","e"," ","n","o","t"," ","f","o","u","n","d">>))
Resp405 ==
  ErrorResponse(405,
    B(<<"M","e","t","h","o","d"," ","n","o","t"," ","a","l","l","o","w","e","d">>),
    B(<<"E","r","r","o","r"," ","4","0","5",":"," ","M","e","t","h","o","d"," ","n","o","t"," ","a","l","l","o","w","e","d">>))
Resp500 ==
  ErrorResponse(500, B(<<"U","h"," ","o","h"," ",":","-","(">>),
    B(<<"E","r","r","o","r"," ","5","0","0",":"," ","I","n","t","e","r","n","a","l"," ","e","r","r","o","r"," ","i","n"," ","h","a","n","d","l","e","r"," ","f","u","n","c","t","i","o","n">>))
H_Allow == B(<<"A","l","l","o","w">>)

\* String::as_bytes: the UTF-8 encoding of a sequence of code points
RECURSIVE as_bytes(_)
as_bytes(str) ==
  IF str = << >> THEN << >>
  ELSE LET c == Head(str)
           enc == IF c < 128 THEN << c >>
                  ELSE IF c < 2048
                  THEN << 192 + (c \div 64), 128 + (c % 64) >>
                  ELSE IF c < 65536
                  THEN << 224 + (c \div 4096), 128 + ((c \div 64) % 64),
                          128 + (c % 64) >>
                  ELSE << 240 + (c \div 262144), 128 + ((c \div 4096) % 64),
                          128 + ((c \div 64) % 64), 128 + (c % 64) >>
       IN  enc \o as_bytes(Tail(str))

(***************************************************************************)
(* The page functions of the application (bin/demo.rs).  A page function   *)
(* is opaque to the server: called on a request it returns a response or   *)
(* panics.                                                                 *)
(***************************************************************************)
H_Example == B(<<"x","-","h">>)
V_Example == B(<<"f","i">>)

\* hello_page: an HTML page and one more header
hello_page(req) ==
  set_header(new_html(B(<<"h","i">>)), H_Example, V_Example)

\* form_post: an HTML page that shows the body
form_post(req) == new_html(req.body)

\* (page_fn)(&request) when it returns
call_page_fn(page_fn, req) ==
  IF page_fn = "hello_page" THEN hello_page(req) ELSE form_post(req)

(***************************************************************************)
(* webserver/mod.rs: process_http_connection                               *)
(***************************************************************************)
K_remote_address ==
  B(<<"r","e","m","o","t","e","_","a","d","d","r","e","s","s">>)
K_local_address ==
  B(<<"l","o","c","a","l","_","a","d","d","r","e","s","s">>)
\* what peer_name() and socket_name() format to
V_remote == B(<<"1",".","1",".","1",".","1",":","9">>)
V_local == B(<<"1",".","1",".","1",".","2",":","8">>)

\* add_socket_info when peer_name() and socket_name() succeed
add_socket_info(req) ==
  [req EXCEPT !.environ =
     MapInsert(MapInsert(@, K_remote_address, V_remote),
               K_local_address, V_local)]

\* variant: a sentinel whose drop writes nothing
HTTPConnectionSentinel_drop_silent(armed, stream, request) == stream

\* HTTPConnectionSentinel::drop: the stream it leaves behind
HTTPConnectionSentinel_drop(armed, stream, request) ==
  IF armed THEN write_response(stream, Some(request), Resp500, << >>)
  ELSE stream

\* What one run of process_http_connection did:
\*   s        the stream as left behind (its log holds the reads and writes)
\*   reader   the result of read_request: "Ok" or the Error variant
\*   routing  the RoutingResult kind, "none" when do_routing was not called
\*   handler  "none" (not called), "returned" or "panicked"
\*   calls    how many times a page function was called
\*   panic    whether the function was left by a panic
Outcome(s, reader, routing, handler, calls, panic) ==
  [s |-> s, reader |-> reader, routing |-> routing, handler |-> handler,
   calls |-> calls, panic |-> panic]

\* variant: InvalidVersion answered like InvalidRequest
reader_error_400(rr) ==
  LET resp == IF rr.res \in {"InvalidRequest", "InvalidVersion"} THEN Resp400
              ELSE IF rr.res = "LengthRequired" THEN Resp411
              ELSE Resp413
  IN  IF rr.res = "IoError"
      THEN Outcome(rr.s, rr.res, "none", "none", 0, FALSE)
      ELSE Outcome(write_response(rr.s, NoReq, resp, << >>),
                   rr.res, "none", "none", 0, FALSE)

\* variant: an I/O error answered with a response
reader_error_answered(rr) ==
  LET resp == IF rr.res \in {"InvalidRequest", "IoError"} THEN Resp400
              ELSE IF rr.res = "LengthRequired" THEN Resp411
              ELSE IF rr.res = "InvalidVersion" THEN Resp505
              ELSE Resp413
  IN  Outcome(write_response(rr.s, NoReq, resp, << >>),
              rr.res, "none", "none", 0, FALSE)

\* the arms of the match on read_request's error
reader_error(rr) ==
  LET resp == IF rr.res = "InvalidRequest" THEN Resp400
              ELSE IF rr.res = "LengthRequired" THEN Resp411
              ELSE IF rr.res = "InvalidVersion" THEN Resp505
              ELSE Resp413
  IN  IF rr.res = "IoError"
      THEN Outcome(rr.s, rr.res, "none", "none", 0, FALSE)
      ELSE Outcome(write_response(rr.s, NoReq, resp, << >>),
                   rr.res, "none", "none", 0, FALSE)

\* variant: the page function is called again and answered again when
\* it has returned
run_handler_again(page_fn, req, stream) ==
  LET response == call_page_fn(page_fn, req)
  IN  { Outcome(HTTPConnectionSentinel_drop(TRUE, stream, req),
                "Ok", "FoundRule", "panicked", 1, TRUE) }
      \cup
      { Outcome(HTTPConnectionSentinel_drop(FALSE,
                  write_response(
                    write_response(stream, Some(req), response, order),
                    Some(req), response, order), req),
                "Ok", "FoundRule", "returned", 2, FALSE) :
          order \in Perms(DOMAIN response.headers) }

\* the sentinel, the call of the page function and what follows it
run_handler(page_fn, req, stream) ==
  LET response == call_page_fn(page_fn, req)
  IN  { Outcome(HTTPConnectionSentinel_drop(TRUE, stream, req),
                "Ok", "FoundRule", "panicked", 1, TRUE) }
      \cup
      { Outcome(HTTPConnectionSentinel_drop(FALSE,
                  write_response(stream, Some(req), response, order), req),
                "Ok", "FoundRule", "returned", 1, FALSE) :
          order \in Perms(DOMAIN response.headers) }

\* process_http_connection from do_routing on
route_and_run(ctx, req, stream) ==
  LET ret == do_routing(ctx, req)
  IN  IF ret.kind = "NoPathMatch"
      THEN { Outcome(write_response(stream, Some(req), Resp404, << >>),
                     "Ok", ret.kind, "none", 0, FALSE) }
      ELSE IF ret.kind = "NoMethodMatch"
      THEN { Outcome(write_response(stream, Some(req),
                       set_header(Resp405, H_Allow, as_bytes(connect(methods))),
                       << H_Allow >>),
                     "Ok", ret.kind, "none", 0, FALSE) :
               methods \in Perms(ret.methods) }
      ELSE run_handler(ret.page_fn, req, stream)

\* process_http_connection(ctx, stream): the outcomes it can have.  The
\* choices are the environment's: whether peer_name()/socket_name() succeed
\* (their unwrap panics otherwise), whether the page function returns or
\* panics, and the iteration orders of the hash collections.  Where the
\* arithmetic of parse_u64 overflows the choice is the build's: the wrapped
\* value goes on, or read_request is left by a panic (reader "Panic").
process_http_connection(ctx, stream) ==
  LET rr == read_request(stream, ctx.max_request_body_size)
  IN  (IF rr.res # "Ok" THEN { reader_error(rr) }
       ELSE { Outcome(rr.s, "Ok", "none", "none", 0, TRUE) }
              \cup route_and_run(ctx, add_socket_info(rr.req), rr.s))
      \cup
      (IF read_request_overflows(stream)
       THEN { Outcome(read_until_headers_end(<< >>, stream).s,
                      "Panic", "none", "none", 0, TRUE) }
       ELSE { })

(***************************************************************************)
(* The application: the configuration calls it makes before run, after     *)
(* bin/demo.rs, and the requests its clients send.                         *)
(***************************************************************************)
Call(op, n, methods, path, page_fn) ==
  [op |-> op, n |-> n, methods |-> methods, path |-> path, page_fn |-> page_fn]

ConfigScript ==
  << Call("set_num_threads", NrThreads, << >>, << >>, ""),
     Call("set_max_request_body_size", MaxBodySize, << >>, << >>, ""),
     Call("add_path", 0, B(<<"G","E","T",","," ","H","E","A","D">>),
          B(<<"/","a">>), "hello_page"),
     Call("add_path_prefix", 0, B(<<"g","e","t",",","h","e","a","d">>),
          B(<<"/","a","/">>), "hello_page"),
     Call("add_path", 0, B(<<"p","o","s","t">>), B(<<"/","p">>), "form_post"),
     Call("add_path", 0, B(<<"P","O","S","T">>), B(<<"/","a","/","b">>),
          "form_post") >>

RequestLine(method, target, protocol) ==
  method \o <<32>> \o target \o <<32>> \o protocol \o CRLF

Header(name, value) == name \o <<58, 32>> \o value \o CRLF

Body(n) == [i \in 1..n |-> 120]

T_a == B(<<"/","a">>)
T_p == B(<<"/","p">>)
M_GET == B(<<"G","E","T">>)
M_POST == B(<<"P","O","S","T">>)
N_ContentLength ==
  B(<<"C","o","n","t","e","n","t","-","L","e","n","g","t","h">>)
N_Expect == B(<<"E","x","p","e","c","t">>)

\* the header block of a POST /p that announces n body bytes
PostHead(n, extra) ==
  RequestLine(M_POST, T_p, P_HTTP11) \o Header(N_ContentLength, Decimal(n))
    \o extra \o CRLF

\* the header block of a POST /p whose Content-Length is the given text
PostHeadText(text) ==
  RequestLine(M_POST, T_p, P_HTTP11) \o Header(N_ContentLength, text) \o CRLF

\* 2^64 in decimal: one more than the largest u64
Pow64Text ==
  B(<<"1","8","4","4","6","7","4","4","0","7","3","7","0","9","5","5","1","6","1","6">>)

Expect100 == Header(N_Expect, B(<<"1","0","0","-","C","o","n","t","i","n","u","e">>))

TransferChunked ==
  Header(B(<<"T","r","a","n","s","f","e","r","-","e","n","c","o","d","i","n","g">>),
         B(<<"c","h","u","n","k","e","d">>))

\* a Transfer-Encoding header in another case and with another value, on
\* a request whose Content-Length is no number
IdentityBadLength ==
  RequestLine(M_POST, T_p, P_HTTP11)
    \o Header(N_ContentLength, B(<<"x">>))
    \o Header(B(<<"T","R","A","N","S","F","E","R","-","E","N","C","O","D","I","N","G">>),
              B(<<"i","d","e","n","t","i","t","y">>))
    \o CRLF

\* n body bytes that differ from each other
Letters(n) == [i \in 1..n |-> 96 + i]

PostP == RequestLine(M_POST, T_p, P_HTTP11) \o CRLF

\* the header blocks the clients send
GetA == RequestLine(M_GET, T_a, P_HTTP11) \o CRLF
HeadA == RequestLine(B(<<"H","E","A","D">>), T_a, P_HTTP10) \o CRLF
GetMissing == RequestLine(M_GET, B(<<"/","z">>), P_HTTP11) \o CRLF
PostA == RequestLine(M_POST, T_a, P_HTTP11) \o CRLF
PutAB ==
  RequestLine(B(<<"P","U","T">>), B(<<"/","a","/","b">>), P_HTTP11) \o CRLF
BadLine == M_GET \o <<32>> \o T_a \o CRLF \o CRLF
BadVersion == RequestLine(M_GET, T_a, B(<<"H","T","T","P","/","3",".","0">>)) \o CRLF
Chunked ==
  RequestLine(M_POST, T_p, P_HTTP11)
    \o Header(B(<<"T","r","a","n","s","f","e","r","-","E","n","c","o","d","i","n","g">>),
              B(<<"c","h","u","n","k","e","d">>))
    \o CRLF
BadLength ==
  RequestLine(M_POST, T_p, P_HTTP11) \o Header(N_ContentLength, B(<<"x">>))
    \o CRLF
\* HEAD requests, declared HTTP/1.0 unless said otherwise: for a path no rule
\* has, for a path whose rule lists post only, with a version that is not
\* supported, with a Transfer-Encoding header, with a body longer than the
\* maximum, and with a Content-Length that is no number
M_HEAD == B(<<"H","E","A","D">>)
HeadMissing == RequestLine(M_HEAD, B(<<"/","z">>), P_HTTP10) \o CRLF
HeadP == RequestLine(M_HEAD, T_p, P_HTTP10) \o CRLF
HeadBadVersion ==
  RequestLine(M_HEAD, T_a, B(<<"H","T","T","P","/","3",".","0">>)) \o CRLF
HeadChunked == RequestLine(M_HEAD, T_a, P_HTTP10) \o TransferChunked \o CRLF
HeadTooLong ==
  RequestLine(M_HEAD, T_a, P_HTTP10)
    \o Header(N_ContentLength, Decimal(MaxBodySize + 1)) \o CRLF
HeadBadLength ==
  RequestLine(M_HEAD, T_a, P_HTTP10) \o Header(N_ContentLength, B(<<"x">>))
    \o CRLF
ChunkedLong ==
  RequestLine(M_POST, T_p, P_HTTP11)
    \o Header(B(<<"T","r","a","n","s","f","e","r","-","E","n","c","o","d","i","n","g">>),
              B(<<"c","h","u","n","k","e","d">>))
    \o Header(N_ContentLength, Decimal(MaxBodySize + 1))
    \o CRLF

\* what a client sends, as the segments the reads return
Inputs ==
  { << >>,
    << SubSeq(GetA, 1, 9) >>,
    << GetA >>,
    << SubSeq(GetA, 1, Len(GetA) - 1), SubSeq(GetA, Len(GetA), Len(GetA)) >>,
    << GetA \o GetA >>,
    << HeadA >>, << GetMissing >>, << PostA >>,
    << BadLine >>, << BadVersion >>, << Chunked >>, << BadLength >>,
    << ChunkedLong >>,
    << HeadMissing >>, << HeadP >>, << HeadBadVersion >>, << HeadChunked >>,
    << HeadTooLong >>, << HeadBadLength >>,
    << PutAB >>,
    << PostHead(MaxBodySize, << >>) \o Letters(MaxBodySize + 1) >>,
    << PostHead(MaxBodySize, << >>) \o Letters(1),
       SubSeq(Letters(MaxBodySize + 1), 2, MaxBodySize + 1) >>,
    << PostP \o Letters(1) >>,
    << IdentityBadLength >>,
    << PostHead(MaxBodySize, Expect100 \o TransferChunked), Body(MaxBodySize) >>,
    << PostHeadText(Pow64Text) >>,
    << PostHeadText(Pow64Text), Body(MaxBodySize + 1) >>,
    << PostHead(0, << >>) >>,
    << PostHead(MaxBodySize, << >>) \o Body(MaxBodySize) >>,
    << PostHead(MaxBodySize, << >>), Body(MaxBodySize) >>,
    << PostHead(MaxBodySize, << >>), Body(1), Body(MaxBodySize) >>,
    << PostHead(MaxBodySize, << >>) \o Body(MaxBodySize - 1) >>,
    << PostHead(MaxBodySize + 1, << >>) \o Body(MaxBodySize + 1) >>,
    << PostHead(MaxBodySize + 1, << >>), Body(MaxBodySize + 1) >>,
    << PostHead(MaxBodySize, Expect100), Body(MaxBodySize) >>,
    << PostHead(MaxBodySize, Expect100) >>,
    << PostHead(MaxBodySize + 1, Expect100), Body(MaxBodySize + 1) >> }

\* the streams of the connections: an input, how it ends, and how many
\* writes succeed (3 or more: all of them); out collects the error reports
\* that write_response prints
Streams ==
  { [segs |-> i, end |-> e, wok |-> w, log |-> << >>, out |-> << >>] :
      i \in Inputs, e \in {"eof", "err"}, w \in 0..3 }

(***************************************************************************)
(* The state.                                                              *)
(*   nr_threads, rules, max_request_body_size, worker_shared_context       *)
(*              the fields of WebServer                                    *)
(*   watchdog   the counter inside ThreadPoolShared.watchdog_mutex         *)
(*   mutex      who holds watchdog_mutex: "free", "main" or "worker"       *)
(*   mainPc     where the main thread is: in the configuration calls, in   *)
(*              run's loop that starts the workers, or in the monitor loop *)
(*              ("cv_wait" is blocked in watchdog_cvar.wait)               *)
(*   cfgStep    the next call of ConfigScript                              *)
(*   started    the loop counter of run                                    *)
(*   threads    the worker threads spawned so far: where each one is       *)
(*   accepted   how many connections have been accepted                    *)
(*   conn       the record of the last accept: the model keeps the record  *)
(*              of one connection at a time                                *)
(***************************************************************************)
VARIABLES nr_threads, rules, max_request_body_size, worker_shared_context,
          watchdog, mutex, mainPc, cfgStep, started, threads, accepted, conn

vars == << nr_threads, rules, max_request_body_size, worker_shared_context,
           watchdog, mutex, mainPc, cfgStep, started, threads, accepted,
           conn >>

server == << nr_threads, rules, max_request_body_size,
             worker_shared_context >>
pool == << watchdog, mutex >>

DEFAULT_MAX_REQUEST_BODY_SIZE == 1000000
DEFAULT_NR_THREADS == 10

NoConn ==
  [kind |-> "none", worker |-> 0, input |-> << >>, log |-> << >>,
   out |-> << >>, reader |-> "", routing |-> "", handler |-> "",
   calls |-> 0, panic |-> FALSE]

\* WebServer::new and ThreadPool::new
Init ==
  /\ nr_threads = DEFAULT_NR_THREADS
  /\ rules = Some(<< >>)
  /\ max_request_body_size = DEFAULT_MAX_REQUEST_BODY_SIZE
  /\ worker_shared_context = None
  /\ watchdog = 0
  /\ mutex = "free"
  /\ mainPc = "configure"
  /\ cfgStep = 1
  /\ started = 0
  /\ threads = << >>
  /\ accepted = 0
  /\ conn = NoConn

(***************************************************************************)
(* The configuration calls of the application.                             *)
(***************************************************************************)
NextCall(op) ==
  /\ mainPc = "configure"
  /\ cfgStep <= Len(ConfigScript)
  /\ ConfigScript[cfgStep].op = op

\* WebServer::set_num_threads; its assertion fails for n <= 0
set_num_threads ==
  /\ NextCall("set_num_threads")
  /\ IF ConfigScript[cfgStep].n > 0
     THEN /\ nr_threads' = ConfigScript[cfgStep].n
          /\ cfgStep' = cfgStep + 1
          /\ UNCHANGED mainPc
     ELSE /\ mainPc' = "panicked"
          /\ UNCHANGED << nr_threads, cfgStep >>
  /\ UNCHANGED << rules, max_request_body_size, worker_shared_context, pool,
                  started, threads, accepted, conn >>

\* WebServer::set_max_request_body_size
set_max_request_body_size ==
  /\ NextCall("set_max_request_body_size")
  /\ max_request_body_size' = ConfigScript[cfgStep].n
  /\ cfgStep' = cfgStep + 1
  /\ UNCHANGED << nr_threads, rules, worker_shared_context, pool, mainPc,
                  started, threads, accepted, conn >>

\* the rule that add_path and add_path_prefix push
push_rule(call, is_prefix) ==
  /\ rules' = Some(Append(rules.val,
                DispatchRule(call.path, is_prefix,
                             parse_methods(call.methods), call.page_fn)))
  /\ cfgStep' = cfgStep + 1
  /\ UNCHANGED << nr_threads, max_request_body_size, worker_shared_context,
                  pool, mainPc, started, threads, accepted, conn >>

\* WebServer::add_path
add_path == NextCall("add_path") /\ push_rule(ConfigScript[cfgStep], FALSE)

\* WebServer::add_path_prefix
add_path_prefix ==
  NextCall("add_path_prefix") /\ push_rule(ConfigScript[cfgStep], TRUE)

(***************************************************************************)
(* WebServer::run, ThreadPool::execute, ThreadPool::wait_for_thread_exit   *)
(***************************************************************************)
\* run up to its first loop: bind and listen succeed, the rules are moved
\* into the shared context
run_listen ==
  /\ mainPc = "configure"
  /\ cfgStep > Len(ConfigScript)
  /\ rules' = None
  /\ worker_shared_context' =
       Some([rules |-> rules.val,
             max_request_body_size |-> max_request_body_size])
  /\ started' = 0
  /\ mainPc' = "start_workers"
  /\ UNCHANGED << nr_threads, max_request_body_size, pool, cfgStep, threads,
                  accepted, conn >>

\* run when bind or listen fails: unwrap panics in the main thread
run_bind_fails ==
  /\ mainPc = "configure"
  /\ cfgStep > Len(ConfigScript)
  /\ mainPc' = "panicked"
  /\ UNCHANGED << server, pool, cfgStep, started, threads, accepted, conn >>

\* ThreadPool::execute: a detached thread that runs the job once; the job
\* is worker_thread_main, which starts in accept
execute == Append(threads, "accept")

\* one iteration of run's first loop: start_new_worker
start_worker ==
  /\ mainPc = "start_workers"
  /\ started < nr_threads
  /\ threads' = execute
  /\ started' = started + 1
  /\ mainPc' = IF started + 1 < nr_threads THEN "start_workers"
               ELSE "wait_lock"
  /\ UNCHANGED << server, pool, cfgStep, accepted, conn >>

\* wait_for_thread_exit: watchdog_mutex.lock()
wait_lock ==
  /\ mainPc = "wait_lock"
  /\ mutex = "free"
  /\ mutex' = "main"
  /\ mainPc' = "wait_check"
  /\ UNCHANGED << server, watchdog, cfgStep, started, threads, accepted,
                  conn >>

\* variant: the loop returns on a positive counter and leaves it as it is
wait_check_body_keep ==
  IF watchdog > 0
  THEN [watchdog |-> watchdog, pc |-> "respawn"]
  ELSE [watchdog |-> watchdog, pc |-> "cv_wait"]

\* variant: the loop does not test the counter before it takes one off
wait_check_body_eager == [watchdog |-> watchdog - 1, pc |-> "respawn"]

\* the body of wait_for_thread_exit's loop, holding the mutex: what it
\* does to the counter and where the main thread goes
wait_check_body ==
  IF watchdog > 0
  THEN [watchdog |-> watchdog - 1, pc |-> "respawn"]
  ELSE [watchdog |-> watchdog, pc |-> "cv_wait"]

\* wait_for_thread_exit: one pass of its loop; returning drops the guard,
\* watchdog_cvar.wait releases the mutex and blocks
wait_check ==
  /\ mainPc = "wait_check"
  /\ watchdog' = wait_check_body.watchdog
  /\ mainPc' = wait_check_body.pc
  /\ mutex' = "free"
  /\ UNCHANGED << server, cfgStep, started, threads, accepted, conn >>

\* Condvar::wait may wake up without a notification
spurious_wakeup ==
  /\ mainPc = "cv_wait"
  /\ mainPc' = "cv_woken"
  /\ UNCHANGED << server, pool, cfgStep, started, threads, accepted, conn >>

\* Condvar::wait, woken: it takes the mutex again before it returns
wait_relock ==
  /\ mainPc = "cv_woken"
  /\ mutex = "free"
  /\ mutex' = "main"
  /\ mainPc' = "wait_check"
  /\ UNCHANGED << server, watchdog, cfgStep, started, threads, accepted,
                  conn >>

\* variant: a replacement worker is given a context made anew from the
\* fields of the server, whose rules were moved out
respawn_fresh_context ==
  /\ mainPc = "respawn"
  /\ threads' = execute
  /\ mainPc' = "wait_lock"
  /\ worker_shared_context' =
       Some([rules |-> << >>,
             max_request_body_size |-> max_request_body_size])
  /\ UNCHANGED << nr_threads, rules, max_request_body_size, pool, cfgStep,
                  started, accepted, conn >>

\* the monitor loop of run after wait_for_thread_exit returned:
\* start_new_worker
respawn ==
  /\ mainPc = "respawn"
  /\ threads' = execute
  /\ mainPc' = "wait_lock"
  /\ UNCHANGED << server, pool, cfgStep, started, accepted, conn >>

(***************************************************************************)
(* worker_thread_main and WorkerSentinel                                   *)
(***************************************************************************)
Workers == 1..Len(threads)

\* the record of a connection that worker t accepted from stream sc and
\* whose processing had outcome o
ConnRecord(t, sc, o) ==
  [kind |-> "connection", worker |-> t, input |-> sc.segs, log |-> o.s.log,
   out |-> o.s.out, reader |-> o.reader, routing |-> o.routing,
   handler |-> o.handler, calls |-> o.calls, panic |-> o.panic]

\* variant: a worker whose loop survives a panic of the connection
after_connection_caught(o) == "accept"

\* where worker_thread_main is after process_http_connection: a panic
\* unwinds out of the loop and out of the job, a return goes on to accept
after_connection(o) == IF o.panic THEN "unwinding" ELSE "accept"

\* worker_thread_main: accept returns a connection and
\* process_http_connection runs on it
serve_connection(t) ==
  /\ threads[t] = "accept"
  /\ worker_shared_context.some
  /\ conn.kind = "none"
  /\ accepted < MaxConns
  /\ \E sc \in Streams :
       \E o \in process_http_connection(worker_shared_context.val, sc) :
         /\ conn' = ConnRecord(t, sc, o)
         /\ threads' = [threads EXCEPT ![t] = after_connection(o)]
  /\ accepted' = accepted + 1
  /\ UNCHANGED << server, pool, mainPc, cfgStep, started >>

\* variant: an error of accept unwinds out of the loop of the worker
accept_error_fatal(t) ==
  /\ threads[t] = "accept"
  /\ conn.kind = "none"
  /\ conn' = [NoConn EXCEPT !.kind = "accept_error", !.worker = t]
  /\ threads' = [threads EXCEPT ![t] = "unwinding"]
  /\ UNCHANGED << server, pool, mainPc, cfgStep, started, accepted >>

\* worker_thread_main: accept returns an error, which is printed
accept_error(t) ==
  /\ threads[t] = "accept"
  /\ conn.kind = "none"
  /\ conn' = [NoConn EXCEPT !.kind = "accept_error", !.worker = t]
  /\ UNCHANGED << server, pool, mainPc, cfgStep, started, threads, accepted >>

\* the record of the last accept is dropped
forget_connection ==
  /\ conn.kind # "none"
  /\ conn' = NoConn
  /\ UNCHANGED << server, pool, mainPc, cfgStep, started, threads, accepted >>

\* WorkerSentinel::drop, run when the job is left: watchdog_mutex.lock()
sentinel_lock(t) ==
  /\ threads[t] = "unwinding"
  /\ mutex = "free"
  /\ mutex' = "worker"
  /\ threads' = [threads EXCEPT ![t] = "drop_locked"]
  /\ UNCHANGED << server, watchdog, mainPc, cfgStep, started, accepted, conn >>

\* variant: a notification that wakes nobody
notify_one_lost == mainPc

\* Condvar::notify_one: a thread blocked in wait is woken
notify_one == IF mainPc = "cv_wait" THEN "cv_woken" ELSE mainPc

\* variant: a sentinel that counts its thread twice
sentinel_signal_twice(t) ==
  /\ threads[t] = "drop_locked"
  /\ watchdog' = watchdog + 2
  /\ mainPc' = notify_one
  /\ mutex' = "free"
  /\ threads' = [threads EXCEPT ![t] = "dead"]
  /\ UNCHANGED << server, cfgStep, started, accepted, conn >>

\* WorkerSentinel::drop holding the mutex: *lock += 1, notify_one, and
\* the guard is dropped; the thread is gone
sentinel_signal(t) ==
  /\ threads[t] = "drop_locked"
  /\ watchdog' = watchdog + 1
  /\ mainPc' = notify_one
  /\ mutex' = "free"
  /\ threads' = [threads EXCEPT ![t] = "dead"]
  /\ UNCHANGED << server, cfgStep, started, accepted, conn >>

(***************************************************************************)
(* Routing on its own: any rules are registered, then requests are routed. *)
(***************************************************************************)
RulePaths == { B(<<"/","a">>), B(<<"/","a","/">>) }
RuleMethods ==
  { B(<<"g","e","t">>), B(<<"G","E","T",","," ","p","o","s","t">>),
    B(<<"p","o","s","t">>) }
PageFunctions == { "hello_page", "form_post" }

\* the requests routed: path and method as parse leaves them
RouteRequests ==
  { [environ |-> EmptyMap, path |-> path, method |-> method, body |-> << >>] :
      path \in RulePaths \cup { B(<<"/","a","/","b">>), B(<<"/","z">>) },
      method \in { B(<<"g","e","t">>), B(<<"p","o","s","t">>),
                   B(<<"h","e","a","d">>) } }

\* add_path or add_path_prefix with any arguments
add_any(is_prefix) ==
  /\ mainPc = "configure"
  /\ conn.kind = "none"
  /\ Len(rules.val) < MaxRules
  /\ \E path \in RulePaths, methods \in RuleMethods, page_fn \in PageFunctions :
       rules' = Some(Append(rules.val,
                  DispatchRule(path, is_prefix, parse_methods(methods),
                               page_fn)))
  /\ UNCHANGED << nr_threads, max_request_body_size, worker_shared_context,
                  pool, mainPc, cfgStep, started, threads, accepted, conn >>

add_any_path == add_any(FALSE)

add_any_path_prefix == add_any(TRUE)

\* a request is routed over the registered rules, by do_routing and by
\* Router::route
route_request ==
  /\ mainPc = "configure"
  /\ conn.kind = "none"
  /\ \E req \in RouteRequests :
       conn' = [kind |-> "routing", req |-> req,
                do_routing |-> do_routing([rules |-> rules.val], req),
                route |-> route(rules.val, req)]
  /\ UNCHANGED << server, pool, mainPc, cfgStep, started, threads, accepted >>

RouteNext ==
  \/ add_any_path
  \/ add_any_path_prefix
  \/ route_request
  \/ forget_connection

RouteSpec == Init /\ [][RouteNext]_vars

Next ==
  \/ set_num_threads
  \/ set_max_request_body_size
  \/ add_path
  \/ add_path_prefix
  \/ run_listen
  \/ run_bind_fails
  \/ start_worker
  \/ wait_lock
  \/ wait_check
  \/ spurious_wakeup
  \/ wait_relock
  \/ respawn
  \/ \E t \in Workers : serve_connection(t)
  \/ \E t \in Workers : accept_error(t)
  \/ forget_connection
  \/ \E t \in Workers : sentinel_lock(t)
  \/ \E t \in Workers : sentinel_signal(t)

Spec == Init /\ [][Next]_vars

(***************************************************************************)
(* Fairness: the scheduler runs every thread that can take a step, and a   *)
(* thread that asks for the mutex gets it when the mutex is released again *)
(* and again.  A spurious wake-up of the condition variable is never       *)
(* guaranteed.                                                             *)
(***************************************************************************)
MainStep == start_worker \/ wait_check \/ respawn

MainLock == wait_lock \/ wait_relock

Fairness ==
  /\ WF_vars(MainStep)
  /\ SF_vars(MainLock)
  /\ \A t \in 1..(NrThreads + MaxConns) :
       /\ SF_vars(t \in Workers /\ sentinel_lock(t))
       /\ WF_vars(t \in Workers /\ sentinel_signal(t))

FairSpec == Spec /\ Fairness

(***************************************************************************)
(* What a connection's log shows.                                          *)
(***************************************************************************)
P_HTTP1 == B(<<"H","T","T","P","/","1",".">>)

\* a write whose data starts with a status line
IsStatusHead(e) ==
  /\ e.op \in {"write", "write_err"}
  /\ Len(e.data) >= 12
  /\ StartsWith(e.data, P_HTTP1)

StatusCode(e) ==
  (e.data[10] - 48) * 100 + (e.data[11] - 48) * 10 + (e.data[12] - 48)

IsFinalHead(e) == IsStatusHead(e) /\ StatusCode(e) # 100

IsWritten(e) == e.op = "write"

\* the status codes of the final responses handed to write_all, in order
RECURSIVE FinalResponses(_)
FinalResponses(log) ==
  IF log = << >> THEN << >>
  ELSE (IF IsFinalHead(Head(log)) THEN << StatusCode(Head(log)) >> ELSE << >>)
         \o FinalResponses(Tail(log))

\* the status codes of the final responses whose head reached the stream
RECURSIVE FinalOnWire(_)
FinalOnWire(log) ==
  IF log = << >> THEN << >>
  ELSE (IF IsFinalHead(Head(log)) /\ IsWritten(Head(log))
        THEN << StatusCode(Head(log)) >> ELSE << >>)
         \o FinalOnWire(Tail(log))

WriteFailed(log) == \E i \in 1..Len(log) : log[i].op = "write_err"
ReadFailed(log) ==
  \E i \in 1..Len(log) :
    log[i].op = "read_err" \/ (log[i].op = "read" /\ log[i].n = 0)

Served == conn.kind = "connection"

(***************************************************************************)
(* C1: on a connection whose request was read and routed to a page         *)
(* function, when the page function panics a response with status 500 is   *)
(* written to the stream: it is the one final response handed to the       *)
(* stream, and it is on the wire unless the write itself failed.           *)
(***************************************************************************)
C1_PanicWrites500 ==
  (Served /\ conn.routing = "FoundRule" /\ conn.handler = "panicked")
    => /\ FinalResponses(conn.log) = << 500 >>
       /\ (~WriteFailed(conn.log) => FinalOnWire(conn.log) = << 500 >>)

C1_Witness ==
  /\ Served /\ conn.routing = "FoundRule" /\ conn.handler = "panicked"
  /\ FinalOnWire(conn.log) = << 500 >>

(***************************************************************************)
(* C2: on every accepted connection whose request was read without an I/O  *)
(* error, exactly one final response is handed to the stream.              *)
(* The code does not keep this: add_socket_info unwraps peer_name() and    *)
(* socket_name() after read_request returned Ok and before the sentinel    *)
(* exists, so when one of them fails the function is left by a panic with  *)
(* no response at all.                                                     *)
(***************************************************************************)
C2_ExactlyOneFinalResponse ==
  (Served /\ conn.reader # "IoError") => Len(FinalResponses(conn.log)) = 1

\* the connections on which C2 fails: read Ok, left by a panic before routing
C2_SocketInfoPanic ==
  /\ Served /\ conn.reader = "Ok" /\ conn.routing = "none" /\ conn.panic
  /\ FinalResponses(conn.log) = << >>

Terminating == {"unwinding", "drop_locked", "dead"}

Running == Cardinality({t \in Workers : threads[t] = "accept"})

\* the workers that left their job and are not counted yet
Leaving ==
  Cardinality({t \in Workers : threads[t] \in {"unwinding", "drop_locked"}})

\* the workers whose job was left, counted or not
Terminated == Cardinality({t \in Workers : threads[t] \in Terminating})

\* counted terminations the supervisor has not answered with a launch yet
Unanswered == watchdog + (IF mainPc = "respawn" THEN 1 ELSE 0)

\* run has launched its first nr_threads workers
PoolStarted == mainPc \notin {"configure", "panicked", "start_workers"}

(***************************************************************************)
(* C4: once the first N = nr_threads workers are launched, in every state  *)
(* the live workers plus the worker terminations not yet answered by a     *)
(* replacement are N: workers in the accept loop, workers leaving their    *)
(* job, the counter, and a return of wait_for_thread_exit whose launch is  *)
(* still to come add up to N.  A replacement is launched only after one    *)
(* counted termination, so the live workers never exceed N.                *)
(***************************************************************************)
C4_PoolSize ==
  PoolStarted =>
    /\ Running + Leaving + Unanswered = nr_threads
    /\ Running + Leaving <= nr_threads
    /\ Len(threads) - nr_threads <= Terminated

\* a replacement was launched and two more terminations wait for theirs
C4_Witness ==
  /\ PoolStarted
  /\ Len(threads) > nr_threads
  /\ Unanswered >= 1
  /\ Running < nr_threads

(***************************************************************************)
(* C5: under fair scheduling every worker termination is eventually        *)
(* followed by the launch of one replacement: once k workers have          *)
(* terminated, k replacements are eventually launched, however the         *)
(* terminations interleave with the supervisor's waiting; and never more   *)
(* replacements than terminations.                                         *)
(***************************************************************************)
C5_EveryTerminationReplaced ==
  /\ \A k \in 1..MaxConns :
       (Terminated >= k) ~> (Len(threads) >= nr_threads + k)
  /\ [](PoolStarted => Len(threads) <= nr_threads + Terminated)

\* two workers terminated before the supervisor took either off the counter
C5_Witness ==
  /\ watchdog >= 2
  /\ mainPc \in {"cv_woken", "wait_lock", "wait_check"}

(***************************************************************************)
(* C6: wait_for_thread_exit blocks on the condition variable while the     *)
(* counter is 0 and returns only by taking exactly one off a positive      *)
(* counter.  The counter is never negative, and a wake-up that finds the   *)
(* counter at 0 makes the caller wait again.                               *)
(***************************************************************************)
C6_WaitForThreadExit ==
  /\ [](watchdog >= 0)
  /\ [][ /\ (mainPc = "cv_wait" => mainPc' \in {"cv_wait", "cv_woken"})
         /\ (mainPc = "cv_woken" => mainPc' \in {"cv_woken", "wait_check"})
         /\ (mainPc = "wait_check" /\ watchdog = 0
               => watchdog' = 0 /\ mainPc' \in {"wait_check", "cv_wait"})
         /\ (mainPc' = "respawn" /\ mainPc # "respawn"
               => /\ mainPc = "wait_check"
                  /\ watchdog > 0
                  /\ watchdog' = watchdog - 1)
         /\ (watchdog' < watchdog
               => mainPc = "wait_check" /\ mainPc' = "respawn")
       ]_vars

\* a wake-up with the counter at 0
C6_Witness == mainPc = "cv_woken" /\ watchdog = 0 /\ mutex = "free"

(***************************************************************************)
(* C7: execute runs its job once in a thread of its own: every call adds   *)
(* one thread and a thread whose job was left is never run again.  When    *)
(* the job is left the counter is incremented by exactly one, holding the  *)
(* lock, and the condition variable is signalled; nothing else increments  *)
(* the counter, and a job that is running leaves counter and lock alone.   *)
(***************************************************************************)
C7_SentinelCounts ==
  [][ /\ Len(threads') \in {Len(threads), Len(threads) + 1}
      /\ \A t \in Workers :
           /\ threads[t] = "dead" => threads'[t] = "dead"
           /\ threads[t] # "accept" => threads'[t] # "accept"
           /\ (threads[t] # "dead" /\ threads'[t] = "dead")
                => /\ mutex = "worker"
                   /\ watchdog' = watchdog + 1
                   /\ (mainPc = "cv_wait" => mainPc' = "cv_woken")
      /\ (watchdog' > watchdog
            => \E t \in Workers : /\ threads[t] = "drop_locked"
                                  /\ threads'[t] = "dead"
                                  /\ watchdog' = watchdog + 1)
      /\ (conn' # conn => watchdog' = watchdog /\ mutex' = mutex)
    ]_vars

\* a terminated job was counted and woke the supervisor
C7_Witness ==
  /\ \E t \in Workers : threads[t] = "dead"
  /\ watchdog = 1
  /\ mainPc = "cv_woken"

(***************************************************************************)
(* What the reads of a connection show.  A read returns one segment of the *)
(* input, so the first k reads received the first k segments.              *)
(***************************************************************************)
RECURSIVE Received(_, _)
Received(input, k) ==
  IF k = 0 THEN << >> ELSE Received(input, k - 1) \o input[k]

\* the number of reads after which the header block is complete; 0 if the
\* input never completes it
HeaderReads(input) ==
  LET ks == {k \in 1..Len(input) : memmem(Received(input, k), CRLFCRLF).some}
  IN  IF ks = {} THEN 0 ELSE CHOOSE k \in ks : \A j \in ks : k <= j

\* the header block of the input, parsed
SentRequest(input) ==
  LET k == HeaderReads(input)
      buf == Received(input, k)
  IN  parse(SubSeq(buf, 1, memmem(buf, CRLFCRLF).val + 4))

IsRead(e) == e.op \in {"read", "read_err"}

NrReads(log) == Cardinality({i \in 1..Len(log) : IsRead(log[i])})

\* no read follows a write
NoReadAfterWrite(log) ==
  \A i, j \in 1..Len(log) : (i < j /\ ~IsRead(log[i])) => ~IsRead(log[j])

ReaderErrors == {"InvalidRequest", "LengthRequired", "InvalidVersion", "TooLarge"}

ReaderStatus(res) ==
  CASE res = "InvalidRequest" -> 400
    [] res = "LengthRequired" -> 411
    [] res = "InvalidVersion" -> 505
    [] res = "TooLarge" -> 413

\* process_http_connection returned before routing, the worker is back in
\* its accept loop
NotDispatched ==
  /\ conn.routing = "none" /\ conn.handler = "none" /\ conn.calls = 0
  /\ ~conn.panic
  /\ threads[conn.worker] = "accept"

(***************************************************************************)
(* C8: every error of read_request other than the I/O error is turned into *)
(* the generated response of its status, InvalidRequest 400,               *)
(* LengthRequired 411, InvalidVersion 505, TooLarge 413, and the           *)
(* connection is abandoned after it: that response is the only one, no     *)
(* read follows it, and neither do_routing nor a page function is called.  *)
(***************************************************************************)
C8_ReaderErrorResponses ==
  /\ (Served /\ conn.reader \in ReaderErrors)
       => /\ FinalResponses(conn.log) = << ReaderStatus(conn.reader) >>
          /\ (~WriteFailed(conn.log)
                => FinalOnWire(conn.log) = << ReaderStatus(conn.reader) >>)
          /\ \A i \in 1..Len(conn.log) :
               IsStatusHead(conn.log[i]) => IsFinalHead(conn.log[i])
          /\ NoReadAfterWrite(conn.log)
          /\ NotDispatched
  /\ (Served /\ conn.input = << BadLine >>) => conn.reader = "InvalidRequest"
  /\ (Served /\ conn.input = << BadLength >>) => conn.reader = "InvalidRequest"
  /\ (Served /\ conn.input = << BadVersion >>) => conn.reader = "InvalidVersion"
  /\ (Served /\ conn.input = << Chunked >>) => conn.reader = "LengthRequired"

\* an unsupported protocol version answered with 505
C8_Witness ==
  /\ Served /\ conn.reader = "InvalidVersion"
  /\ FinalOnWire(conn.log) = << 505 >>

(***************************************************************************)
(* C9 as the specification states it: when a read fails or returns zero    *)
(* bytes before the request is complete, read_request returns the I/O      *)
(* error, no byte of any response is written to the connection, no page    *)
(* function is called and the worker goes on to its next accept.           *)
(***************************************************************************)
C9_NoResponseByte ==
  (Served /\ ReadFailed(conn.log))
    => /\ conn.reader = "IoError"
       /\ \A i \in 1..Len(conn.log) : ~IsWritten(conn.log[i])
       /\ NotDispatched

(***************************************************************************)
(* C9, amended: when a read fails or returns zero bytes before the request *)
(* is complete, read_request returns the I/O error, no final response is   *)
(* written, no page function is called and the worker goes on to its next  *)
(* accept.  Nothing is written when the header block was not complete; a   *)
(* failure while reading the body of a request that expects 100-continue   *)
(* comes after the interim 100 Continue, which is then the only write.     *)
(***************************************************************************)
C9_ReadFailure ==
  (Served /\ ReadFailed(conn.log))
    => /\ conn.reader = "IoError"
       /\ FinalResponses(conn.log) = << >>
       /\ NotDispatched
       /\ IsRead(conn.log[Len(conn.log)])
       /\ \A i \in 1..Len(conn.log) :
            ~IsRead(conn.log[i])
              => /\ conn.log[i].op = "write"
                 /\ conn.log[i].data = Continue100
                 /\ HeaderReads(conn.input) > 0
                 /\ needs_100_continue(SentRequest(conn.input))
                 /\ \A j \in 1..Len(conn.log) :
                      ~IsRead(conn.log[j]) => j = i
       /\ (HeaderReads(conn.input) = 0
             => \A i \in 1..Len(conn.log) : IsRead(conn.log[i]))

\* the body ends early after 100 Continue was written
C9_Witness ==
  /\ Served /\ ReadFailed(conn.log)
  /\ \E i \in 1..Len(conn.log) :
       IsWritten(conn.log[i]) /\ conn.log[i].data = Continue100

\* the request sent on the connection, when its header block is complete
\* and parses; has_length when its Content-Length parses, to length
SentOf(input) ==
  LET k == HeaderReads(input)
      buf == Received(input, k)
      req == parse(SubSeq(buf, 1, memmem(buf, CRLFCRLF).val + 4))
      clen == parse_u64(req.environ[K_http_content_length])
  IN  IF k = 0 \/ ~req.ok
      THEN [parsed |-> FALSE, header_reads |-> k, has_length |-> FALSE,
            length |-> u64_of(0), transfer_encoding |-> FALSE]
      ELSE IF K_http_content_length \notin DOMAIN req.environ \/ ~clen.some
      THEN [parsed |-> TRUE, header_reads |-> k, has_length |-> FALSE,
            length |-> u64_of(0),
            transfer_encoding |->
              K_http_transfer_encoding \in DOMAIN req.environ]
      ELSE [parsed |-> TRUE, header_reads |-> k, has_length |-> TRUE,
            length |-> clen.val,
            transfer_encoding |->
              K_http_transfer_encoding \in DOMAIN req.environ]

\* the same for every input, computed once
SentTable == [input \in Inputs |-> SentOf(input)]

SentOn(input) == SentTable[input]

MaxSize == u64_of(worker_shared_context.val.max_request_body_size)

\* the connection was answered 413 and nothing was read after the header
\* block
Answered413(sent) ==
  /\ conn.reader = "TooLarge"
  /\ FinalResponses(conn.log) = << 413 >>
  /\ NrReads(conn.log) = sent.header_reads
  /\ NoReadAfterWrite(conn.log)

(***************************************************************************)
(* C10 as the specification states it: a Content-Length that parses to a   *)
(* value above the configured maximum makes read_request fail with         *)
(* TooLarge and the server answer 413 with no further read; a              *)
(* Content-Length equal to the maximum is not rejected as too large.       *)
(***************************************************************************)
C10_TooLarge ==
  Served =>
    LET sent == SentOn(conn.input)
    IN  /\ (sent.has_length /\ u64_gt(sent.length, MaxSize))
             => Answered413(sent)
        /\ (sent.has_length /\ sent.length = MaxSize)
             => conn.reader # "TooLarge"

(***************************************************************************)
(* C10, amended: on a request without a Transfer-Encoding header, a        *)
(* Content-Length that parses to a value above the configured maximum      *)
(* makes read_request fail with TooLarge and the server answer 413 with no *)
(* further read; a Content-Length equal to the maximum is not rejected as  *)
(* too large.  With a Transfer-Encoding header the answer is 411.          *)
(***************************************************************************)
C10_TooLargeWithoutTransferEncoding ==
  Served =>
    LET sent == SentOn(conn.input)
    IN  /\ (sent.has_length /\ ~sent.transfer_encoding
              /\ u64_gt(sent.length, MaxSize))
             => Answered413(sent)
        /\ (sent.has_length /\ sent.transfer_encoding
              /\ u64_gt(sent.length, MaxSize))
             => /\ conn.reader = "LengthRequired"
                /\ FinalResponses(conn.log) = << 411 >>
        /\ (sent.has_length /\ sent.length = MaxSize)
             => conn.reader # "TooLarge"

\* an oversized body is announced and sent; 413 is on the wire and the body
\* was never read
C10_Witness ==
  /\ Served
  /\ Len(conn.input) = 2
  /\ NrReads(conn.log) = 1
  /\ FinalOnWire(conn.log) = << 413 >>
  /\ LET sent == SentOn(conn.input)
     IN  /\ sent.has_length /\ ~sent.transfer_encoding
         /\ u64_gt(sent.length, MaxSize)

(***************************************************************************)
(* Decimal texts of any length, compared without converting them.          *)
(***************************************************************************)
AllDigits(t) == Len(t) > 0 /\ \A i \in 1..Len(t) : t[i] \in 48..57

RECURSIVE StripZeros(_)
StripZeros(t) ==
  IF Len(t) > 1 /\ t[1] = 48 THEN StripZeros(Tail(t)) ELSE t

\* the number written as the digits a is greater than the one written as b
DigitsGreater(a, b) ==
  LET x == StripZeros(a)
      y == StripZeros(b)
  IN  \/ Len(x) > Len(y)
      \/ /\ Len(x) = Len(y)
         /\ \E i \in 1..Len(x) :
              x[i] > y[i] /\ \A j \in 1..(i - 1) : x[j] = y[j]

\* the request sent on the connection parses, has no Transfer-Encoding and
\* a Content-Length of digits only; text is that Content-Length
SentLengthTextOf(input) ==
  LET k == HeaderReads(input)
      req == SentRequest(input)
  IN  IF k > 0 /\ req.ok
         /\ K_http_transfer_encoding \notin DOMAIN req.environ
         /\ K_http_content_length \in DOMAIN req.environ
         /\ AllDigits(req.environ[K_http_content_length])
      THEN [digits |-> TRUE, text |-> req.environ[K_http_content_length]]
      ELSE [digits |-> FALSE, text |-> << >>]

\* the same for every input, computed once
SentLengthTextTable == [input \in Inputs |-> SentLengthTextOf(input)]

SentLengthText(input) == SentLengthTextTable[input]

(***************************************************************************)
(* C11: a Content-Length made of ASCII digits only whose decimal value is  *)
(* above the configured maximum, however many digits it has, makes         *)
(* read_request fail with TooLarge; the request is never accepted with a   *)
(* shorter body.                                                           *)
(* The code does not keep this: parse_u64 computes ret * 10 + n in a u64   *)
(* with no overflow check, so a value of 2^64 or more wraps and is         *)
(* compared after wrapping (or the addition panics in a build that checks  *)
(* overflow).                                                              *)
(***************************************************************************)
C11_LongLengthTooLarge ==
  Served =>
    LET sent == SentLengthText(conn.input)
    IN  (sent.digits
           /\ DigitsGreater(sent.text,
                Decimal(worker_shared_context.val.max_request_body_size)))
          => conn.reader = "TooLarge"

\* the connections on which C11 fails by wrapping: 2^64 announced, the
\* request accepted with the body of the wrapped length
C11_WrappedAccepted ==
  /\ Served /\ conn.reader = "Ok"
  /\ SentLengthText(conn.input).digits
  /\ SentLengthText(conn.input).text = Pow64Text

\* the writes of the interim response, attempted or done: their places in
\* the log
ContinueWrites(log) ==
  {i \in 1..Len(log) : ~IsRead(log[i]) /\ log[i].data = Continue100}

\* the interim response is handed to the stream exactly once, after the
\* reads that received the header block and before everything else
ContinueOnceAfterHeader(log, header_reads) ==
  /\ Cardinality(ContinueWrites(log)) = 1
  /\ \A i \in ContinueWrites(log) :
       /\ i = header_reads + 1
       /\ \A j \in 1..(i - 1) : IsRead(log[j])

\* the request sent on the connection announces a length that parses, does
\* not overflow and is not above the maximum, and expects 100-continue
SentExpectOf(input) ==
  LET sent == SentOn(input)
      req == SentRequest(input)
  IN  /\ sent.has_length
      /\ ~parse_u64_overflows(req.environ[K_http_content_length])
      /\ K_http_expect \in DOMAIN req.environ
      /\ into_ascii_lowercase(req.environ[K_http_expect]) = V_100_continue

\* the same for every input, computed once
SentExpectTable == [input \in Inputs |-> SentExpectOf(input)]

ExpectsContinue(input) ==
  SentExpectTable[input] /\ ~u64_gt(SentOn(input).length, MaxSize)

(***************************************************************************)
(* C12 as the specification states it: a request with a Content-Length not *)
(* above the maximum and an Expect header equal to 100-continue, whatever  *)
(* its case, has 'HTTP/1.1 100 Continue' CRLF CRLF written exactly once,   *)
(* after the header block was parsed, before any read for the body and     *)
(* before the final response.                                              *)
(***************************************************************************)
C12_ContinueWritten ==
  (Served /\ ExpectsContinue(conn.input))
    => ContinueOnceAfterHeader(conn.log, SentOn(conn.input).header_reads)

(***************************************************************************)
(* C12, amended: the same, for a request without a Transfer-Encoding       *)
(* header.  A request with a Transfer-Encoding header is answered 411      *)
(* before Content-Length and Expect are looked at, and no 100 Continue is  *)
(* written for it.                                                         *)
(***************************************************************************)
C12_ContinueWithoutTransferEncoding ==
  (Served /\ ExpectsContinue(conn.input))
    => IF SentOn(conn.input).transfer_encoding
       THEN /\ ContinueWrites(conn.log) = {}
            /\ FinalResponses(conn.log) = << 411 >>
       ELSE ContinueOnceAfterHeader(conn.log, SentOn(conn.input).header_reads)

\* 100 Continue written, then the body read, then the response of the page
\* function
C12_Witness ==
  /\ Served /\ ExpectsContinue(conn.input)
  /\ ~SentOn(conn.input).transfer_encoding
  /\ NrReads(conn.log) > SentOn(conn.input).header_reads
  /\ IsWritten(conn.log[SentOn(conn.input).header_reads + 1])
  /\ FinalOnWire(conn.log) = << 200 >>

(***************************************************************************)
(* C13: every request whose header block parses and carries a              *)
(* Transfer-Encoding header, whatever its value and the case of its name,  *)
(* is rejected with LengthRequired and answered 411.  The check comes      *)
(* before Content-Length is looked at: nothing is read after the header    *)
(* block, no 100 Continue is written, and a Content-Length that is no      *)
(* number or too large on the same request still gives 411, not 400 or     *)
(* 413.                                                                    *)
(***************************************************************************)
C13_TransferEncodingRejected ==
  (Served /\ SentOn(conn.input).parsed /\ SentOn(conn.input).transfer_encoding)
    => /\ conn.reader = "LengthRequired"
       /\ FinalResponses(conn.log) = << 411 >>
       /\ (~WriteFailed(conn.log) => FinalOnWire(conn.log) = << 411 >>)
       /\ NrReads(conn.log) = SentOn(conn.input).header_reads
       /\ NoReadAfterWrite(conn.log)
       /\ ContinueWrites(conn.log) = {}
       /\ NotDispatched

\* Transfer-Encoding: identity with a Content-Length that is no number,
\* answered 411
C13_Witness ==
  /\ Served /\ conn.input = << IdentityBadLength >>
  /\ SentOn(conn.input).transfer_encoding
  /\ FinalOnWire(conn.log) = << 411 >>

\* the bytes the input holds after the header terminator, and whether the
\* request is a POST of /p, which form_post answers with the request body
SentBodyOf(input) ==
  LET k == HeaderReads(input)
      all == Received(input, Len(input))
      pos == memmem(all, CRLFCRLF)
      req == SentRequest(input)
  IN  IF k = 0 \/ ~req.ok THEN [echoed |-> FALSE, after |-> << >>]
      ELSE [echoed |-> req.path = T_p /\ req.method = into_ascii_lowercase(M_POST),
            after |-> SubSeq(all, pos.val + 5, Len(all))]

\* the same for every input, computed once
SentBodyTable == [input \in Inputs |-> SentBodyOf(input)]

\* the body the request of the connection must have: the first n bytes
\* after the terminator when Content-Length parses to n, none without
ExpectedBody(input) ==
  IF SentOn(input).has_length
  THEN SubSeq(SentBodyTable[input].after, 1, nat_of(SentOn(input).length))
  ELSE << >>

\* form_post returned and its response was written in full: the last write
\* is the response body, which is the request body
EchoedBody == conn.log[Len(conn.log)].data

BodyEchoed ==
  /\ Served /\ conn.reader = "Ok" /\ conn.handler = "returned"
  /\ SentBodyTable[conn.input].echoed
  /\ ~WriteFailed(conn.log)

(***************************************************************************)
(* C14: when read_request succeeds on a request whose Content-Length       *)
(* parses to n, the body of the request is exactly the first n bytes that  *)
(* follow the header terminator in the stream, the bytes that came in the  *)
(* same read as the header block included, and what was received beyond n  *)
(* is dropped; without a Content-Length the body is empty even when bytes  *)
(* followed the terminator.                                                *)
(***************************************************************************)
C14_BodyIsFirstBytes ==
  /\ BodyEchoed => EchoedBody = ExpectedBody(conn.input)
  /\ (Served /\ conn.reader = "Ok" /\ SentOn(conn.input).has_length)
       => Len(SentBodyTable[conn.input].after) >= nat_of(SentOn(conn.input).length)

\* the header block came with the first body byte, the next read brought
\* more than was announced, and the body is the announced length
C14_Witness ==
  /\ BodyEchoed
  /\ Len(conn.input) = 2
  /\ EchoedBody = Letters(MaxBodySize)
  /\ Len(SentBodyTable[conn.input].after) > MaxBodySize

(***************************************************************************)
(* What routing must give, stated over the registered rules.               *)
(***************************************************************************)
Routed == conn.kind = "routing"

\* the rule's path matches the request path
PathMatches(rule, req) ==
  IF rule.is_prefix
  THEN /\ Len(req.path) >= Len(rule.path)
       /\ \A i \in 1..Len(rule.path) : req.path[i] = rule.path[i]
  ELSE req.path = rule.path

\* the rule lists the request method
ListsMethod(rule, req) ==
  \E j \in 1..Len(rule.methods) : rule.methods[j] = req.method

\* the places of the rules whose path matches, and of those that also list
\* the method
PathMatching(rl, req) == {i \in 1..Len(rl) : PathMatches(rl[i], req)}

FullMatching(rl, req) ==
  {i \in PathMatching(rl, req) : ListsMethod(rl[i], req)}

First(S) == CHOOSE i \in S : \A j \in S : i <= j

\* the methods of all the rules whose path matches
OfferedMethods(rl, req) ==
  UNION { {rl[i].methods[j] : j \in 1..Len(rl[i].methods)} :
            i \in PathMatching(rl, req) }

FoundFirst(ret, rl, req) ==
  /\ ret.kind = "FoundRule" <=> FullMatching(rl, req) # {}
  /\ FullMatching(rl, req) # {}
       => ret.page_fn = rl[First(FullMatching(rl, req))].page_fn

(***************************************************************************)
(* C15: routing returns FoundRule exactly when some registered rule        *)
(* matches the request path (a prefix rule when the request path starts    *)
(* with its path, an exact rule when the paths are equal) and lists the    *)
(* request method; the page function returned is that of the first such    *)
(* rule in registration order, however specific the later rules are.  It   *)
(* holds of do_routing and of Router::route.                               *)
(***************************************************************************)
C15_FirstMatchWins ==
  Routed => /\ FoundFirst(conn.do_routing, rules.val, conn.req)
            /\ FoundFirst(conn.route, rules.val, conn.req)

\* a prefix rule registered first wins over the exact rule for the same
\* path, which has another page function
C15_Witness ==
  /\ Routed
  /\ Len(rules.val) = 2
  /\ FullMatching(rules.val, conn.req) = {1, 2}
  /\ rules.val[1].is_prefix /\ ~rules.val[2].is_prefix
  /\ rules.val[2].path = conn.req.path
  /\ rules.val[1].page_fn # rules.val[2].page_fn
  /\ conn.do_routing = FoundRule(rules.val[1].page_fn)

NoMatchKinds(ret, rl, req) ==
  /\ ret.kind = "NoPathMatch" <=> PathMatching(rl, req) = {}
  /\ ret.kind = "NoMethodMatch"
       <=> (PathMatching(rl, req) # {} /\ FullMatching(rl, req) = {})
  /\ ret.kind = "NoMethodMatch"
       => /\ ret.methods = OfferedMethods(rl, req)
          /\ req.method \notin ret.methods

(***************************************************************************)
(* C16: routing returns NoPathMatch exactly when the path of no rule       *)
(* matches the request path, and NoMethodMatch exactly when the path of    *)
(* some rule matches and none of the rules whose path matches lists the    *)
(* request method.  The methods returned are then the union of the methods *)
(* of all the rules whose path matches, each once, and the request method  *)
(* is not among them.  It holds of do_routing and of Router::route.        *)
(***************************************************************************)
C16_NoMatchResults ==
  Routed => /\ NoMatchKinds(conn.do_routing, rules.val, conn.req)
            /\ NoMatchKinds(conn.route, rules.val, conn.req)

\* two rules match the path, both offer get, the second also post; a head
\* request is told get and post
C16_Witness ==
  /\ Routed
  /\ PathMatching(rules.val, conn.req) = {1, 2}
  /\ Len(rules.val[1].methods) = 1 /\ Len(rules.val[2].methods) = 2
  /\ rules.val[1].methods[1] = rules.val[2].methods[1]
  /\ conn.do_routing.kind = "NoMethodMatch"
  /\ Cardinality(conn.do_routing.methods) = 2

(***************************************************************************)
(* What the written head of a response shows.                              *)
(***************************************************************************)
\* the head of the one final response of the connection
FinalHead(log) ==
  log[CHOOSE i \in 1..Len(log) : IsFinalHead(log[i])].data

\* the lines of a head: status line, header lines, and the empty line that
\* ends it
HeadLines(head) ==
  LET ends == {i \in 1..(Len(head) - 1) : head[i] = 13 /\ head[i + 1] = 10}
      nth(k) == CHOOSE e \in ends : Cardinality({x \in ends : x < e}) = k - 1
      start(k) == IF k = 1 THEN 1 ELSE nth(k - 1) + 2
  IN  [k \in 1..Cardinality(ends) |-> SubSeq(head, start(k), nth(k) - 1)]

P_Allow == B(<<"A","l","l","o","w",":"," ">>)

\* the values of the Allow header lines of a head
AllowValues(head) ==
  LET lines == HeadLines(head)
      at == {i \in 2..Len(lines) : StartsWith(lines[i], P_Allow)}
  IN  [i \in at |-> SubSeq(lines[i], Len(P_Allow) + 1, Len(lines[i]))]

\* the entries of a comma separated list
ListEntries(value) ==
  LET parts == split_str_comma(value)
  IN  [i \in 1..Len(parts) |-> trim(parts[i])]

\* path and method of the request sent on an input, as parse leaves them
SentRouteOf(input) ==
  LET req == SentRequest(input)
  IN  IF HeaderReads(input) = 0 \/ ~req.ok
      THEN [path |-> << >>, method |-> << >>]
      ELSE [path |-> req.path, method |-> req.method]

\* the same for every input, computed once
SentRouteTable == [input \in Inputs |-> SentRouteOf(input)]

\* the response was not made by a page function, and the worker is back in
\* its accept loop after it
AnsweredWithoutHandler(code) ==
  /\ FinalResponses(conn.log) = << code >>
  /\ (~WriteFailed(conn.log) => FinalOnWire(conn.log) = << code >>)
  /\ conn.handler = "none" /\ conn.calls = 0 /\ ~conn.panic
  /\ ~IsRead(conn.log[Len(conn.log)])
  /\ threads[conn.worker] = "accept"

(***************************************************************************)
(* C17: in process_http_connection NoPathMatch gives a 404 response and    *)
(* NoMethodMatch(methods) gives a 405 response whose Allow header lists    *)
(* exactly the methods of the routing result, each once; in both cases no  *)
(* page function is called and the connection ends after that one          *)
(* response.                                                               *)
(***************************************************************************)
C17_NoMatchResponses ==
  /\ (Served /\ conn.routing = "NoPathMatch")
       => /\ AnsweredWithoutHandler(404)
          /\ PathMatching(worker_shared_context.val.rules,
                          SentRouteTable[conn.input]) = {}
          /\ DOMAIN AllowValues(FinalHead(conn.log)) = {}
  /\ (Served /\ conn.routing = "NoMethodMatch")
       => /\ AnsweredWithoutHandler(405)
          /\ LET allow == AllowValues(FinalHead(conn.log))
                 offered == OfferedMethods(worker_shared_context.val.rules,
                                           SentRouteTable[conn.input])
             IN  /\ Cardinality(DOMAIN allow) = 1
                 /\ \A i \in DOMAIN allow :
                      LET entries == ListEntries(allow[i])
                      IN  /\ {entries[j] : j \in 1..Len(entries)} = offered
                          /\ Len(entries) = Cardinality(offered)

\* a 405 on the wire whose Allow header names the three methods that two
\* rules offer for the path
C17_Witness ==
  /\ Served /\ conn.routing = "NoMethodMatch"
  /\ FinalOnWire(conn.log) = << 405 >>
  /\ Cardinality(OfferedMethods(worker_shared_context.val.rules,
                                SentRouteTable[conn.input])) = 3

\* the response process_http_connection hands to write_response on the
\* connection: the generated one of its error, or the one its page function
\* returns (form_post for a POST of /p, hello_page otherwise)
GivenResponse ==
  IF conn.reader \in ReaderErrors
  THEN CASE conn.reader = "InvalidRequest" -> Resp400
         [] conn.reader = "LengthRequired" -> Resp411
         [] conn.reader = "InvalidVersion" -> Resp505
         [] conn.reader = "TooLarge" -> Resp413
  ELSE IF conn.routing = "NoPathMatch" THEN Resp404
  ELSE IF conn.routing = "NoMethodMatch"
  THEN set_header(Resp405, H_Allow, << >>)
  ELSE IF conn.handler = "panicked" THEN Resp500
  ELSE IF SentBodyTable[conn.input].echoed
  THEN form_post([NoRequest EXCEPT !.body = ExpectedBody(conn.input)])
  ELSE hello_page(NoRequest)

\* the header names whose value is checked elsewhere
ValueOpen(name) == conn.routing = "NoMethodMatch" /\ name = H_Allow

\* a connection on which a final response was handed to the stream
Responded == Served /\ FinalResponses(conn.log) # << >>

P_ConnectionClose ==
  B(<<"C","o","n","n","e","c","t","i","o","n",":"," ","c","l","o","s","e">>)
P_ContentLength ==
  B(<<"C","o","n","t","e","n","t","-","L","e","n","g","t","h",":"," ">>)

\* the head is made of the status line, Connection: close, Content-Length
\* with the length of the body of the response, each header of the response
\* once, and the empty line
WellFormedHead(head, response) ==
  LET lines == HeadLines(head)
      names == DOMAIN response.headers
  IN  /\ EndsWith(head, CRLFCRLF)
      /\ Len(lines) = 4 + Cardinality(names)
      /\ StartsWith(lines[1], P_HTTP1)
      /\ SubSeq(lines[1], 9, Len(lines[1]))
           = <<32>> \o Decimal(response.code) \o <<32>> \o response.status
      /\ lines[2] = P_ConnectionClose
      /\ lines[3] = P_ContentLength \o Decimal(Len(response.body))
      /\ lines[Len(lines)] = << >>
      /\ \A name \in names :
           \E i \in 4..(Len(lines) - 1) :
             /\ StartsWith(lines[i], name \o <<58, 32>>)
             /\ ValueOpen(name)
                  \/ lines[i] = name \o <<58, 32>> \o response.headers[name]
             /\ \A j \in 4..(Len(lines) - 1) :
                  StartsWith(lines[j], name \o <<58, 32>>) => j = i

(***************************************************************************)
(* C18: every response that write_response writes is made of the status    *)
(* line, then Connection: close, then a Content-Length header whose value  *)
(* is the length of the body of the response, then each header set on the  *)
(* response once, then an empty line.  The Content-Length is the length of *)
(* the body for every response, also when the body is not sent.            *)
(***************************************************************************)
C18_HeadLayout ==
  Responded
    => /\ WellFormedHead(FinalHead(conn.log), GivenResponse)
       /\ \A i \in 1..(Len(conn.log) - 1) :
            IsFinalHead(conn.log[i])
              => /\ ~IsRead(conn.log[i + 1])
                 /\ HeadLines(conn.log[i].data)[3]
                      = P_ContentLength \o Decimal(conn.log[i + 1].n)

\* the response of hello_page to a HEAD request: the head announces the two
\* bytes of the page and is the last thing written
C18_Witness ==
  /\ Responded /\ conn.handler = "returned"
  /\ SentRouteTable[conn.input].method = M_head
  /\ FinalOnWire(conn.log) = << 200 >>
  /\ IsFinalHead(conn.log[Len(conn.log)])
  /\ HeadLines(FinalHead(conn.log))[3] = P_ContentLength \o Decimal(2)
  /\ Len(HeadLines(FinalHead(conn.log))) = 6


\* the request line of the input names the method head, in any case
AsksHead(input) ==
  /\ input # << >>
  /\ Len(input[1]) >= 5
  /\ into_ascii_lowercase(SubSeq(input[1], 1, 5)) = M_head \o <<32>>

\* the same for every input, computed once
AsksHeadTable == [input \in Inputs |-> AsksHead(input)]

\* write_response was given the request, and its method is head
HeadRequestGiven == conn.reader \notin ReaderErrors /\ AsksHeadTable[conn.input]

(***************************************************************************)
(* C19: after the head of a final response is written, the body of the     *)
(* response is handed to the stream next and nothing after it, unless the  *)
(* response is written with the request at hand and its method is head:    *)
(* then nothing follows the head.  That is so for the response of the page *)
(* function, for 404, for 405 and for the 500 written after a panic.  The  *)
(* responses to reader errors (400, 411, 413, 505) carry their body also   *)
(* when the request line names the method head.                            *)
(***************************************************************************)
C19_BodyUnlessHead ==
  Served
    => \A i \in 1..Len(conn.log) :
         (IsFinalHead(conn.log[i]) /\ IsWritten(conn.log[i]))
           => IF HeadRequestGiven
              THEN /\ i = Len(conn.log)
                   /\ StatusCode(conn.log[i]) \in {200, 404, 405, 500}
              ELSE /\ i + 1 = Len(conn.log)
                   /\ conn.log[i + 1].op \in {"write", "write_err"}
                   /\ conn.log[i + 1].data = GivenResponse.body
                   /\ (conn.reader \in ReaderErrors
                         => /\ StatusCode(conn.log[i]) \in {400, 411, 413, 505}
                            /\ conn.log[i + 1].data # << >>)

\* a HEAD request refused for its Transfer-Encoding header: the body of the
\* 411 response is on the wire
C19_Witness ==
  /\ Served /\ AsksHeadTable[conn.input]
  /\ conn.reader = "LengthRequired"
  /\ Len(conn.log) >= 2
  /\ IsFinalHead(conn.log[Len(conn.log) - 1])
  /\ StatusCode(conn.log[Len(conn.log) - 1]) = 411
  /\ conn.log[Len(conn.log)] = Event("write", Len(Resp411.body), Resp411.body)


\* the request line of the input ends with the protocol HTTP/1.0, in any
\* case
DeclaresHttp10(input) ==
  /\ input # << >>
  /\ Len(HeadLines(input[1])) > 0
  /\ EndsWith(into_ascii_lowercase(HeadLines(input[1])[1]), <<32>> \o HTTP10)

\* the same for every input, computed once
DeclaresHttp10Table == [input \in Inputs |-> DeclaresHttp10(input)]

\* write_response was given the request, and it declared HTTP/1.0
Http10RequestGiven ==
  conn.reader \notin ReaderErrors /\ DeclaresHttp10Table[conn.input]

\* the protocol a status line names
ProtocolOf(e) == SubSeq(e.data, 1, 8)

(***************************************************************************)
(* C20: the status line of a final response names HTTP/1.0 exactly when    *)
(* the response is written with the request at hand and the request        *)
(* declared HTTP/1.0.  In every other case it names HTTP/1.1: when the     *)
(* request declared HTTP/1.1, and when no request is at hand, as for the   *)
(* responses to reader errors, whatever the request line declared.         *)
(***************************************************************************)
C20_StatusLineProtocol ==
  Served
    => \A i \in 1..Len(conn.log) :
         IsFinalHead(conn.log[i])
           => /\ ProtocolOf(conn.log[i])
                   = (IF Http10RequestGiven THEN P_HTTP10 ELSE P_HTTP11)
              /\ conn.log[i].data[9] = 32

\* a request that declares HTTP/1.0 and is refused by the reader: the 411
\* response names HTTP/1.1
C20_Witness ==
  /\ Served /\ DeclaresHttp10Table[conn.input]
  /\ conn.reader = "LengthRequired"
  /\ FinalOnWire(conn.log) = << 411 >>
  /\ ProtocolOf(conn.log[1 + NrReads(conn.log)]) = P_HTTP11


\* the write of the head of a final response failed
HeadWriteFailed ==
  \E i \in 1..Len(conn.log) :
    IsFinalHead(conn.log[i]) /\ conn.log[i].op = "write_err"

\* the head of a final response was written and the write of its body failed
BodyWriteFailed ==
  \E i \in 1..(Len(conn.log) - 1) :
    /\ IsFinalHead(conn.log[i]) /\ IsWritten(conn.log[i])
    /\ conn.log[i + 1].op = "write_err"

(***************************************************************************)
(* C21: when the write of the head or of the body of a response fails, the *)
(* failure is reported by a println, write_response returns, the failed    *)
(* write is the last thing done on the connection, and the worker goes on  *)
(* with its accept loop (unless the response was the 500 written while a   *)
(* panic unwinds).                                                         *)
(* The code does not keep this for the body: after the body write it tests *)
(* ioret, the result of the write of the head, which is Ok at that point,  *)
(* so the report of a failed body write is never printed.                  *)
(***************************************************************************)
C21_WriteFailureReported ==
  (Served /\ (HeadWriteFailed \/ BodyWriteFailed))
    => /\ Len(conn.out) = 1
       /\ conn.log[Len(conn.log)].op = "write_err"
       /\ (~conn.panic => threads[conn.worker] = "accept")

\* the connections on which C21 fails: the body write failed and nothing was
\* printed
C21_BodyFailureSilent ==
  /\ Served /\ BodyWriteFailed
  /\ conn.out = << >>
  /\ conn.log[Len(conn.log)].op = "write_err"

\* what the code does keep: a failed write of the head is reported, and
\* after any failed write nothing more is done on the connection
C21_HeadFailureReported ==
  /\ (Served /\ HeadWriteFailed)
       => conn.out = << "error sending response headers" >>
  /\ (Served /\ (HeadWriteFailed \/ BodyWriteFailed))
       => /\ conn.log[Len(conn.log)].op = "write_err"
          /\ (~conn.panic => threads[conn.worker] = "accept")

(***************************************************************************)
(* The request parser on its own: parse is applied to header blocks made   *)
(* of a request line and header lines drawn from small sets.               *)
(***************************************************************************)
\* the most tokens of a request line
MaxTokens == 4
\* the most header lines of a header block
MaxHeaderLines == 3

\* the tokens request lines of any shape are made of: a method, a target,
\* a version and the empty token (two consecutive spaces)
RequestTokens ==
  { << >>, B(<<"G","E","T">>), B(<<"/","%","4","1","?","b","?","c">>),
    B(<<"h","T","t","P","/","1",".","1">>) }

\* the request lines of three tokens: methods, targets and versions
RequestLines ==
  { << m, p, v >> :
      m \in { B(<<"G","E","T">>), B(<<"o","P","T","I","O","N","S">>) },
      p \in { B(<<"/","%","4","1","?","b","?","c">>), B(<<"/","x">>),
              B(<<"*">>), B(<<"a">>) },
      v \in { B(<<"H","T","T","P","/","1",".","0">>),
              B(<<"h","T","t","P","/","1",".","1">>),
              B(<<"H","T","T","P","/","1",".","2">>) } }

\* the header lines header blocks are made of
HeaderLineSet ==
  { B(<<"H",":"," ","a">>), B(<<"h",":","b"," "," ">>),
    B(<<"Z",":"," "," ","c",":","d">>), B(<<"A","B","C"," ","D","E","F">>),
    B(<<"H"," ",":"," ","a">>), B(<<" ","H",":"," ","a">>) }

\* the sequences over S of m to n elements
SeqsOf(S, m, n) == UNION { [1..k -> S] : k \in m..n }

\* the pieces, each one followed by sep
RECURSIVE EachFollowedBy(_, _)
EachFollowedBy(pieces, sep) ==
  IF Len(pieces) = 0 THEN << >>
  ELSE Head(pieces) \o sep \o EachFollowedBy(Tail(pieces), sep)

\* the pieces with sep between them
Joined(pieces, sep) ==
  IF Len(pieces) = 0 THEN << >>
  ELSE LET t == EachFollowedBy(pieces, sep)
       IN  SubSeq(t, 1, Len(t) - Len(sep))

\* the header block of a request line given as tokens and of header lines
HeaderBlock(tokens, headers) ==
  Joined(tokens, <<32>>) \o CRLF \o EachFollowedBy(headers, CRLF) \o CRLF

\* request lines of any shape without headers, every request line of three
\* tokens with at most one header line, and two request lines followed by
\* any header lines
ParseCases ==
  { [tokens |-> t, headers |-> << >>] :
      t \in SeqsOf(RequestTokens, 1, MaxTokens) }
  \cup
  { [tokens |-> t, headers |-> h] :
      t \in RequestLines, h \in SeqsOf(HeaderLineSet, 0, 1) }
  \cup
  { [tokens |-> t, headers |-> h] :
      t \in { << B(<<"G","E","T">>), B(<<"/","%","4","1","?","b","?","c">>),
                 B(<<"h","T","t","P","/","1",".","1">>) >>,
              << B(<<"o","P","T","I","O","N","S">>), B(<<"*">>),
                 B(<<"H","T","T","P","/","1",".","0">>) >> },
      h \in SeqsOf(HeaderLineSet, 0, MaxHeaderLines) }

\* parse is called on a header block
parse_request ==
  /\ mainPc = "configure"
  /\ conn.kind = "none"
  /\ \E c \in ParseCases :
       LET request_bytes == HeaderBlock(c.tokens, c.headers)
       IN  conn' = [kind |-> "parse", tokens |-> c.tokens,
                    headers |-> c.headers, input |-> request_bytes,
                    result |-> parse(request_bytes)]
  /\ UNCHANGED << server, pool, mainPc, cfgStep, started, threads, accepted >>

ParseNext ==
  \/ parse_request
  \/ forget_connection

ParseSpec == Init /\ [][ParseNext]_vars

Parsed == conn.kind = "parse"

(***************************************************************************)
(* C22                                                                     *)
(***************************************************************************)
\* what follows the second space of the request line
RestOfLine(tokens) == Joined(SubSeq(tokens, 3, Len(tokens)), <<32>>)

\* the request line is not made of exactly three non-empty tokens
NotThreeTokens(tokens) ==
  Len(tokens) # 3 \/ \E i \in 1..Len(tokens) : Len(tokens[i]) = 0

\* C22 as stated: parse fails with BadRequestLine for every header block
\* whose request line does not consist of exactly three non-empty
\* space-separated tokens (fewer, more, or an empty token).
C22_BadRequestLine ==
  (Parsed /\ NotThreeTokens(conn.tokens))
    => (~conn.result.ok /\ conn.result.err = "BadRequestLine")

\* C22 as the code has it: the line is cut at its first two spaces only.
\* parse fails with BadRequestLine exactly when the line has fewer than two
\* spaces or the method, the target or what follows the second space is
\* empty; a line of more than three tokens whose first two are not empty
\* never fails with BadRequestLine: what follows the second space is taken
\* as the protocol, and the failure is BadVersion.
C22_BadRequestLineAtTwoSpaces ==
  Parsed =>
    LET t == conn.tokens
        bad == \/ Len(t) < 3
               \/ Len(t[1]) = 0
               \/ Len(t[2]) = 0
               \/ Len(RestOfLine(t)) = 0
    IN  /\ bad <=> (~conn.result.ok /\ conn.result.err = "BadRequestLine")
        /\ (Len(t) > 3 /\ ~bad)
             => (~conn.result.ok /\ conn.result.err = "BadVersion")

\* a line of four tokens, none of them empty, has been parsed and has
\* failed with BadVersion
C22_Witness ==
  /\ Parsed
  /\ Len(conn.tokens) = 4
  /\ \A i \in 1..4 : Len(conn.tokens[i]) > 0
  /\ conn.result.err = "BadVersion"

(***************************************************************************)
(* C23                                                                     *)
(***************************************************************************)
\* the position of the first byte b of s, Len(s) + 1 when there is none
FirstIndex(s, b) ==
  IF \E i \in 1..Len(s) : s[i] = b
  THEN CHOOSE i \in 1..Len(s) : s[i] = b /\ \A j \in 1..(i - 1) : s[j] # b
  ELSE Len(s) + 1

\* what precedes the first byte b of s: all of s when there is none
Before(s, b) == SubSeq(s, 1, FirstIndex(s, b) - 1)

\* what follows the first byte b of s: nothing when there is none
After(s, b) == SubSeq(s, FirstIndex(s, b) + 1, Len(s))

\* a header line with a colon whose name has no space at either end
WellFormedHeader(line) ==
  /\ \E i \in 1..Len(line) : line[i] = 58
  /\ LET name == Before(line, 58)
     IN  Len(name) > 0 => (name[1] # 32 /\ name[Len(name)] # 32)

\* three non-empty tokens
ThreeTokens(tokens) ==
  Len(tokens) = 3 /\ \A i \in 1..3 : Len(tokens[i]) > 0

\* V is HTTP/1.0 or HTTP/1.1 in any letter case
KnownVersion(v) ==
  /\ Len(v) = 8
  /\ v[1] \in {72, 104} /\ v[2] \in {84, 116} /\ v[3] \in {84, 116}
  /\ v[4] \in {80, 112} /\ v[5] = 47 /\ v[6] = 49 /\ v[7] = 46
  /\ v[8] \in {48, 49}

\* M is OPTIONS in any letter case
IsOptions(m) ==
  /\ Len(m) = 7
  /\ m[1] \in {79, 111} /\ m[2] \in {80, 112} /\ m[3] \in {84, 116}
  /\ m[4] \in {73, 105} /\ m[5] \in {79, 111} /\ m[6] \in {78, 110}
  /\ m[7] \in {83, 115}

\* the request line M P V of C23 followed by well-formed headers
ValidRequest(tokens, headers) ==
  /\ ThreeTokens(tokens)
  /\ KnownVersion(tokens[3])
  /\ \/ tokens[2][1] = 47
     \/ tokens[2] = <<42>> /\ IsOptions(tokens[1])
  /\ \A i \in 1..Len(headers) : WellFormedHeader(headers[i])

\* C23: for every request line 'M P V' with one space between the tokens,
\* V equal to HTTP/1.0 or HTTP/1.1 in any letter case and P starting with
\* '/' (or P = '*' with M = OPTIONS in any case), followed by well-formed
\* headers, parse succeeds with environ[method] = lowercase(M),
\* environ[protocol] = lowercase(V), environ[path] = the raw bytes of P
\* before its first '?', and the method field = lowercase(M); any other V
\* yields BadVersion.
C23_ValidRequestLine ==
  Parsed =>
    LET t == conn.tokens
        r == conn.result
    IN  /\ ValidRequest(t, conn.headers) =>
             /\ r.ok
             /\ r.environ[K_method] = [i \in 1..Len(t[1]) |-> LowerByte(t[1][i])]
             /\ r.environ[K_protocol] = [i \in 1..8 |-> LowerByte(t[3][i])]
             /\ r.environ[K_path] = Before(t[2], 63)
             /\ r.method = [i \in 1..Len(t[1]) |-> LowerByte(t[1][i])]
        /\ (ThreeTokens(t) /\ ~KnownVersion(t[3]))
             => (~r.ok /\ r.err = "BadVersion")

\* a request with an escaped path, a query, a mixed-case version and
\* headers has been parsed
C23_Witness ==
  /\ Parsed
  /\ ValidRequest(conn.tokens, conn.headers)
  /\ conn.tokens[2] = B(<<"/","%","4","1","?","b","?","c">>)
  /\ conn.tokens[3] = B(<<"h","T","t","P","/","1",".","1">>)
  /\ Len(conn.headers) > 0
  /\ conn.result.environ[K_path] = B(<<"/","%","4","1">>)

(***************************************************************************)
(* C24                                                                     *)
(***************************************************************************)
\* a request line of three tokens with a known version: parse gets as far
\* as the request-target
TargetExamined(tokens) == ThreeTokens(tokens) /\ KnownVersion(tokens[3])

\* C24: the target '*' is accepted only when the method is options (then
\* path = '*' and query_string is empty); any other target that does not
\* start with '/' yields InvalidAbsolutePath; otherwise the target is split
\* at its first '?' only: path is what precedes it, query_string is all
\* that follows it (further '?' included), and query_string is empty when
\* there is no '?'.
C24_RequestTarget ==
  (Parsed /\ TargetExamined(conn.tokens)) =>
    LET m == conn.tokens[1]
        p == conn.tokens[2]
        r == conn.result
        wellFormed == \A i \in 1..Len(conn.headers) :
                        WellFormedHeader(conn.headers[i])
    IN  IF p = <<42>> /\ IsOptions(m)
        THEN wellFormed => /\ r.ok
                           /\ r.environ[K_path] = <<42>>
                           /\ r.environ[K_query_string] = << >>
        ELSE IF p[1] # 47
        THEN ~r.ok /\ r.err = "InvalidAbsolutePath"
        ELSE wellFormed => /\ r.ok
                           /\ r.environ[K_path] = Before(p, 63)
                           /\ r.environ[K_query_string] = After(p, 63)

\* a target with two '?' has been split: the second one is in the query
C24_Witness ==
  /\ Parsed
  /\ TargetExamined(conn.tokens)
  /\ conn.result.ok
  /\ conn.result.environ[K_path] = B(<<"/","%","4","1">>)
  /\ conn.result.environ[K_query_string] = B(<<"b","?","c">>)

(***************************************************************************)
(* C25                                                                     *)
(***************************************************************************)
\* s without its leading and trailing spaces
Trimmed(s) ==
  LET keep == { i \in 1..Len(s) : s[i] # 32 }
  IN  IF keep = {} THEN << >>
      ELSE SubSeq(s, CHOOSE i \in keep : \A j \in keep : i <= j,
                     CHOOSE i \in keep : \A j \in keep : j <= i)

\* the key a header line is stored under
HeaderKey(line) ==
  LET name == Before(line, 58)
  IN  K_http_ \o [i \in 1..Len(name) |-> LowerByte(name[i])]

\* parse gets as far as the header lines
HeadersExamined(tokens) ==
  /\ TargetExamined(tokens)
  /\ \/ tokens[2][1] = 47
     \/ tokens[2] = <<42>> /\ IsOptions(tokens[1])

\* the header lines that are not well formed
IllFormed(headers) ==
  { i \in 1..Len(headers) : ~WellFormedHeader(headers[i]) }

\* C25: a header line without ':' yields InvalidHeaderSeparator; a name
\* (what precedes the first ':') with a leading or trailing space yields
\* InvalidHeaderWhitespace; otherwise the value (all that follows the first
\* ':', later ':' included) is stored without its leading and trailing
\* spaces under the key http_ followed by the lowercased name.  The first
\* offending line decides; a name that occurs once has its value alone.
C25_HeaderLines ==
  (Parsed /\ HeadersExamined(conn.tokens)) =>
    LET h == conn.headers
        r == conn.result
        bad == IllFormed(h)
    IN  IF bad # {}
        THEN LET line == h[CHOOSE i \in bad : \A j \in bad : i <= j]
             IN  /\ ~r.ok
                 /\ r.err = IF \A i \in 1..Len(line) : line[i] # 58
                            THEN "InvalidHeaderSeparator"
                            ELSE "InvalidHeaderWhitespace"
        ELSE /\ r.ok
             /\ \A i \in 1..Len(h) :
                  /\ HeaderKey(h[i]) \in DOMAIN r.environ
                  /\ (\A j \in 1..Len(h) :
                        HeaderKey(h[j]) = HeaderKey(h[i]) => j = i)
                       => r.environ[HeaderKey(h[i])] = Trimmed(After(h[i], 58))

\* a value with spaces before it and a ':' inside it has been stored, and
\* so has a value with spaces after it
C25_Witness ==
  /\ Parsed
  /\ conn.result.ok
  /\ conn.headers = << B(<<"Z",":"," "," ","c",":","d">>),
                       B(<<"h",":","b"," "," ">>) >>
  /\ conn.result.environ[B(<<"h","t","t","p","_","z">>)] = B(<<"c",":","d">>)
  /\ conn.result.environ[B(<<"h","t","t","p","_","h">>)] = B(<<"b">>)

(***************************************************************************)
(* C26                                                                     *)
(***************************************************************************)
\* the trimmed values of the header lines stored under key, in order
RECURSIVE ValuesUnder(_, _)
ValuesUnder(headers, key) ==
  IF Len(headers) = 0 THEN << >>
  ELSE (IF HeaderKey(Head(headers)) = key
        THEN << Trimmed(After(Head(headers), 58)) >> ELSE << >>)
         \o ValuesUnder(Tail(headers), key)

\* C26: when a header name occurs several times (names compared after
\* lowercasing, other headers possibly in between), environ[http_<name>]
\* is the trimmed values joined by ',' in order of arrival; the values of
\* different names are never merged: every key holds the values of its own
\* name only, and there is no other key.
C26_RepeatedHeaders ==
  (Parsed /\ HeadersExamined(conn.tokens) /\ IllFormed(conn.headers) = {}) =>
    LET h == conn.headers
        r == conn.result
        keys == { HeaderKey(h[i]) : i \in 1..Len(h) }
    IN  /\ r.ok
        /\ DOMAIN r.environ
             = {K_method, K_protocol, K_path, K_query_string} \cup keys
        /\ \A k \in keys : r.environ[k] = Joined(ValuesUnder(h, k), <<44>>)

\* H and h with another header in between: the two values are joined in
\* order of arrival and the other header is kept apart
C26_Witness ==
  /\ Parsed
  /\ conn.result.ok
  /\ conn.headers = << B(<<"H",":"," ","a">>),
                       B(<<"Z",":"," "," ","c",":","d">>),
                       B(<<"h",":","b"," "," ">>) >>
  /\ conn.result.environ[B(<<"h","t","t","p","_","h">>)] = B(<<"a",",","b">>)
  /\ conn.result.environ[B(<<"h","t","t","p","_","z">>)] = B(<<"c",":","d">>)

(***************************************************************************)
(* The byte routines on their own: percent_decode, split_bytes_on_crlf and *)
(* parse_u64 are applied to all the byte strings over small alphabets, and *)
(* read_request to requests whose Content-Length is any such string.       *)
(***************************************************************************)
\* the longest byte string given to percent_decode and split_bytes_on_crlf
MaxBytes == 5
\* the longest byte string given to parse_u64
MaxDigits == 4

\* '%', the digits 4 and f, and g which is no digit
EscapeBytes == B(<<"%","4","f","g">>)
\* CR, LF and a letter
LineBytes == <<13, 10, 97>>
\* two digits, a space, a sign and a letter
NumberBytes == B(<<"0","7"," ","+","x">>)

\* the byte strings of at most n bytes of alphabet
BytesOver(alphabet, n) ==
  SeqsOf({ alphabet[i] : i \in 1..Len(alphabet) }, 0, n)

call_percent_decode ==
  /\ mainPc = "configure"
  /\ conn.kind = "none"
  /\ \E input \in BytesOver(EscapeBytes, MaxBytes) :
       conn' = [kind |-> "percent_decode", input |-> input,
                result |-> percent_decode(input),
                again |-> percent_decode(percent_decode(input))]
  /\ UNCHANGED << server, pool, mainPc, cfgStep, started, threads, accepted >>

call_split_bytes_on_crlf ==
  /\ mainPc = "configure"
  /\ conn.kind = "none"
  /\ \E src \in BytesOver(LineBytes, MaxBytes) :
       conn' = [kind |-> "split_bytes_on_crlf", input |-> src,
                result |-> split_bytes_on_crlf(src)]
  /\ UNCHANGED << server, pool, mainPc, cfgStep, started, threads, accepted >>

call_parse_u64 ==
  /\ mainPc = "configure"
  /\ conn.kind = "none"
  /\ \E input \in BytesOver(NumberBytes, MaxDigits) :
       conn' = [kind |-> "parse_u64", input |-> input,
                result |-> parse_u64(input)]
  /\ UNCHANGED << server, pool, mainPc, cfgStep, started, threads, accepted >>

\* read_request on a stream that delivers a request with a Content-Length
\* header in one read and is then at its end
call_read_request ==
  /\ mainPc = "configure"
  /\ conn.kind = "none"
  /\ \E value \in BytesOver(NumberBytes, MaxDigits) :
       LET stream == [segs |-> << RequestLine(M_GET, T_a, P_HTTP10)
                                    \o Header(N_ContentLength, value)
                                    \o CRLF >>,
                      end |-> "eof", wok |-> 1, log |-> << >>, out |-> << >>]
       IN  conn' = [kind |-> "read_request", input |-> value,
                    result |-> read_request(stream, MaxBodySize).res]
  /\ UNCHANGED << server, pool, mainPc, cfgStep, started, threads, accepted >>

BytesNext ==
  \/ call_percent_decode
  \/ call_split_bytes_on_crlf
  \/ call_parse_u64
  \/ call_read_request
  \/ forget_connection

BytesSpec == Init /\ [][BytesNext]_vars

(***************************************************************************)
(* C27                                                                     *)
(***************************************************************************)
\* the value of a hexadecimal digit, -1 for any other byte
HexValue(byte) ==
  IF byte \in 48..57 THEN byte - 48
  ELSE IF byte \in 65..70 THEN byte - 55
  ELSE IF byte \in 97..102 THEN byte - 87
  ELSE 0 - 1

\* the positions of x where a '%' is followed by two hexadecimal digits
Escapes(x) ==
  { i \in 1..(Len(x) - 2) :
      x[i] = 37 /\ HexValue(x[i + 1]) >= 0 /\ HexValue(x[i + 2]) >= 0 }

\* the k-th smallest element of a set of numbers
Nth(S, k) == CHOOSE e \in S : Cardinality({ x \in S : x < e }) = k - 1

\* x with every escape replaced by the byte it names
Unescaped(x) ==
  LET esc == Escapes(x)
      kept == { i \in 1..Len(x) : (i - 1) \notin esc /\ (i - 2) \notin esc }
  IN  [k \in 1..Cardinality(kept) |->
         LET i == Nth(kept, k)
         IN  IF i \in esc
             THEN 16 * HexValue(x[i + 1]) + HexValue(x[i + 2])
             ELSE x[i]]

Decoded == conn.kind = "percent_decode"

\* C27: percent_decode(x) = x for every x that contains no '%' followed by
\* two hexadecimal digits (invalid and truncated escapes, a '%' in the
\* last or next-to-last position included, pass through unchanged);
\* percent_decode(percent_decode(x)) = percent_decode(x) for every x
\* without '%'; every valid %XX is replaced by the single byte 16*X1+X2.
C27_PercentDecode ==
  Decoded =>
    LET x == conn.input
    IN  /\ Escapes(x) = {} => conn.result = x
        /\ (\A i \in 1..Len(x) : x[i] # 37) => conn.again = conn.result
        /\ conn.result = Unescaped(x)

\* an escape at the very end of the input has been decoded, after a '%'
\* that starts no escape
C27_Witness ==
  /\ Decoded
  /\ conn.input = B(<<"%","g","%","4","f">>)
  /\ conn.result = B(<<"%","g","O">>)

(***************************************************************************)
(* C28                                                                     *)
(***************************************************************************)
\* the positions of src where a CRLF starts
CrlfStarts(src) ==
  { i \in 1..(Len(src) - 1) : src[i] = 13 /\ src[i + 1] = 10 }

\* the bytes between the previous CRLF (or the start) and the k-th CRLF
SegmentBefore(src, k) ==
  LET from == IF k = 1 THEN 1 ELSE Nth(CrlfStarts(src), k - 1) + 2
  IN  SubSeq(src, from, Nth(CrlfStarts(src), k) - 1)

\* the longest prefix of src that ends with CRLF: empty when there is none
CrlfPrefix(src) ==
  LET starts == CrlfStarts(src)
  IN  IF starts = {} THEN << >>
      ELSE SubSeq(src, 1, 1 + CHOOSE i \in starts : \A j \in starts : j <= i)

SplitDone == conn.kind = "split_bytes_on_crlf"

\* C28: split_bytes_on_crlf returns one segment per occurrence of CRLF in
\* the input, in order, each being the bytes between the previous CRLF (or
\* the start) and that CRLF, empty segments kept; the bytes after the last
\* CRLF are dropped, so the segments each followed by CRLF concatenate to
\* the longest prefix of the input that ends with CRLF.
C28_SplitOnCrlf ==
  SplitDone =>
    LET src == conn.input
        ret == conn.result
    IN  /\ Len(ret) = Cardinality(CrlfStarts(src))
        /\ \A k \in 1..Len(ret) : ret[k] = SegmentBefore(src, k)
        /\ EachFollowedBy(ret, CRLF) = CrlfPrefix(src)

\* an empty segment is kept and the byte after the last CRLF is dropped
C28_Witness ==
  /\ SplitDone
  /\ conn.input = <<13, 10, 13, 10, 97>>
  /\ conn.result = << << >>, << >> >>

(***************************************************************************)
(* C29                                                                     *)
(***************************************************************************)
\* ten to the power n
RECURSIVE Pow10(_)
Pow10(n) == IF n = 0 THEN 1 ELSE 10 * Pow10(n - 1)

\* the sum of f over the set S of numbers
RECURSIVE SumOver(_, _)
SumOver(S, f) ==
  IF S = {} THEN 0
  ELSE LET e == CHOOSE x \in S : TRUE
       IN  f[e] + SumOver(S \ {e}, f)

\* the decimal value of a string of digits
DecimalValue(s) ==
  SumOver(1..Len(s), [i \in 1..Len(s) |-> (s[i] - 48) * Pow10(Len(s) - i)])

C29_ContentLengthRefused ==
  /\ conn.kind = "read_request"
  /\ conn.input = B(<<"7"," ","0">>)
  /\ conn.result = "InvalidRequest"

(***************************************************************************)
(* C30                                                                     *)
(***************************************************************************)
\* the rules that the configuration calls up to call n register, in order
RECURSIVE RulesUpTo(_)
RulesUpTo(n) ==
  IF n = 0 THEN << >>
  ELSE LET call == ConfigScript[n]
       IN  IF call.op \in {"add_path", "add_path_prefix"}
           THEN Append(RulesUpTo(n - 1),
                       DispatchRule(call.path, call.op = "add_path_prefix",
                                    parse_methods(call.methods), call.page_fn))
           ELSE RulesUpTo(n - 1)

\* the context the application has configured when it calls run
ConfiguredContext ==
  [rules |-> RulesUpTo(Len(ConfigScript)),
   max_request_body_size |->
     ConfigScript[CHOOSE n \in 1..Len(ConfigScript) :
                    ConfigScript[n].op = "set_max_request_body_size"].n]

\* where the main thread is while run serves
ServingPcs ==
  {"start_workers", "wait_lock", "wait_check", "cv_wait", "cv_woken",
   "respawn"}

\* C30: configuration and serving are strictly separated.  Once run has
\* started serving, the rule set and the maximum body size seen by the
\* workers never change, and no field of the configuration changes; the
\* context is the one configured before run, and every worker, the
\* replacements the supervisor launches included, is given that context;
\* run launches exactly the configured number of workers before its first
\* wait, launches none before it serves, and never returns.
C30_ConfigurationThenServing ==
  [][ /\ worker_shared_context.some =>
           /\ worker_shared_context' = worker_shared_context
           /\ worker_shared_context.val = ConfiguredContext
           /\ UNCHANGED << nr_threads, rules, max_request_body_size >>
           /\ mainPc \in ServingPcs /\ mainPc' \in ServingPcs
      /\ ~worker_shared_context.some =>
           /\ threads = << >> /\ threads' = << >>
           /\ mainPc \notin ServingPcs
      /\ Len(threads') > Len(threads) =>
           /\ worker_shared_context'.some
           /\ worker_shared_context'.val = ConfiguredContext
      /\ (mainPc = "start_workers" /\ mainPc' # "start_workers") =>
           /\ mainPc' = "wait_lock"
           /\ Len(threads') = nr_threads
      /\ (mainPc # "wait_lock" /\ mainPc' = "wait_lock") =>
           mainPc \in {"start_workers", "respawn"}
    ]_vars

\* a replacement worker has served a connection, with the limit configured
\* before run
C30_Witness ==
  /\ Served
  /\ conn.worker > nr_threads
  /\ conn.reader = "TooLarge"
  /\ worker_shared_context = Some(ConfiguredContext)

(***************************************************************************)
(* C31                                                                     *)
(***************************************************************************)
\* the positions of the log where the stream was read
ReadsOf(log) == { i \in 1..Len(log) : log[i].op \in {"read", "read_err"} }

\* the positions of the log where bytes of a final response were handed to
\* the stream: every write but the interim 100 Continue
AnswersOf(log) ==
  { i \in 1..Len(log) :
      log[i].op \in {"write", "write_err"} /\ log[i].data # Continue100 }

\* the client sent a second request behind the first one
Pipelined == conn.input = << GetA \o GetA >>

\* C31: on each connection the steps happen in the order read request,
\* route, invoke handler, write response, each at most once: routing is
\* reached only after the request was read, the handler is invoked at most
\* once and only after routing returned FoundRule, every read precedes the
\* response, and there is at most one response; bytes received after the
\* first request (a pipelined request) cause no further read, no second
\* handler call and no second response.
C31_OneRequestPerConnection ==
  Served =>
    /\ conn.routing # "none" => conn.reader = "Ok"
    /\ conn.calls <= 1
    /\ conn.calls = 1 <=> conn.handler # "none"
    /\ conn.calls = 1 => conn.routing = "FoundRule"
    /\ \A i \in ReadsOf(conn.log), j \in AnswersOf(conn.log) : i < j
    /\ Len(FinalResponses(conn.log)) <= 1
    /\ Pipelined =>
         /\ Cardinality(ReadsOf(conn.log)) = 1
         /\ conn.reader = "Ok"
         /\ Len(FinalResponses(conn.log)) = 1 \/ conn.routing = "none"

\* two requests arrived in one read: the handler ran once and one response
\* was written, head and body
C31_Witness ==
  /\ Served
  /\ Pipelined
  /\ conn.calls = 1 /\ conn.handler = "returned"
  /\ FinalOnWire(conn.log) = << 200 >>
  /\ Cardinality(AnswersOf(conn.log)) = 2

(***************************************************************************)
(* The search for the end of the headers on its own: the bytes of a        *)
(* client arrive cut into reads at any places.                             *)
(***************************************************************************)
\* the bytes sent cut at c1 and c2, as the non-empty pieces reads return
CutAt(bytes, c1, c2) ==
  SelectSeq(<< SubSeq(bytes, 1, c1), SubSeq(bytes, c1 + 1, c2),
               SubSeq(bytes, c2 + 1, Len(bytes)) >>,
            LAMBDA piece : Len(piece) > 0)

\* read_request up to the call of the parser: read_until_headers_end on an
\* empty buffer, the header block req_buffer[..req_size] and what the
\* buffer holds behind it
read_header_block ==
  /\ mainPc = "configure"
  /\ conn.kind = "none"
  /\ \E bytes \in BytesOver(LineBytes, MaxBytes), end \in {"eof", "err"} :
       \E c1 \in 0..Len(bytes) :
         \E c2 \in c1..Len(bytes) :
           LET stream == [segs |-> CutAt(bytes, c1, c2), end |-> end,
                          wok |-> 0, log |-> << >>, out |-> << >>]
               h == read_until_headers_end(<< >>, stream)
           IN  conn' = [kind |-> "headers_end", input |-> stream.segs,
                        ok |-> h.ok, req_size |-> h.val,
                        block |-> SubSeq(h.buffer, 1, h.val),
                        rest |-> SubSeq(h.buffer, h.val + 1, Len(h.buffer)),
                        left |-> h.s.segs, log |-> h.s.log]
  /\ UNCHANGED << server, pool, mainPc, cfgStep, started, threads, accepted >>

HeadersEndNext ==
  \/ read_header_block
  \/ forget_connection

HeadersEndSpec == Init /\ [][HeadersEndNext]_vars

(***************************************************************************)
(* C32                                                                     *)
(***************************************************************************)
\* the positions of x where CRLF CRLF starts
Terminators(x) ==
  { i \in 1..(Len(x) - 3) :
      x[i] = 13 /\ x[i + 1] = 10 /\ x[i + 2] = 13 /\ x[i + 3] = 10 }

\* the first n pieces one after the other
RECURSIVE FirstPieces(_, _)
FirstPieces(pieces, n) ==
  IF n = 0 THEN << >> ELSE FirstPieces(pieces, n - 1) \o pieces[n]

HeadersEndSought == conn.kind = "headers_end"

\* C32: the header block handed to the parser is the buffered bytes up to
\* and including the first occurrence of CRLF CRLF in the whole
\* accumulated buffer; the terminator is found also when it straddles two
\* reads, as soon as the reads so far contain it; every byte read after
\* that first occurrence is in the body region, none in the header block.
\* Without a terminator in what the client sends the search fails.
C32_HeaderBlock ==
  HeadersEndSought =>
    LET pieces == conn.input
        sent == FirstPieces(pieces, Len(pieces))
        reads == Cardinality(ReadsOf(conn.log))
    IN  IF Terminators(sent) = {}
        THEN ~conn.ok /\ reads = Len(pieces) + 1
        ELSE LET first == CHOOSE i \in Terminators(sent) :
                            \A j \in Terminators(sent) : i <= j
             IN  /\ conn.ok
                 /\ conn.req_size = first + 3
                 /\ conn.block = SubSeq(sent, 1, first + 3)
                 /\ conn.block \o conn.rest = FirstPieces(pieces, reads)
                 /\ Terminators(FirstPieces(pieces, reads - 1)) = {}
                 /\ conn.left = SubSeq(pieces, reads + 1, Len(pieces))

\* the terminator arrived in three reads, the last with a byte behind it:
\* that byte is in the body region
C32_Witness ==
  /\ HeadersEndSought
  /\ conn.input = << <<13>>, <<10, 13>>, <<10, 97>> >>
  /\ conn.ok
  /\ conn.block = CRLFCRLF
  /\ conn.rest = <<97>>

(***************************************************************************)
(* Parsing and routing together: a request line with an escaped target is  *)
(* parsed and the request is routed over any registered rules.             *)
(***************************************************************************)
\* the targets requested: escapes of a, of '?' and of '%'
EscapedTargets ==
  { B(<<"/","%","6","1">>), B(<<"/","a","%","3","F","x","?","y">>),
    B(<<"/","a","/","%","3","f","b">>), B(<<"/","%","2","5","6","1">>) }

\* parse, the WebRequest read_request makes of its result, and routing, by
\* do_routing and by Router::route
route_target ==
  /\ mainPc = "configure"
  /\ conn.kind = "none"
  /\ \E target \in EscapedTargets :
       LET parsed == parse(RequestLine(M_GET, target, P_HTTP11) \o CRLF)
           req == [environ |-> parsed.environ, path |-> parsed.path,
                   method |-> parsed.method, body |-> << >>]
       IN  conn' = [kind |-> "target_routing", target |-> target,
                    req |-> req,
                    do_routing |-> do_routing([rules |-> rules.val], req),
                    route |-> route(rules.val, req)]
  /\ UNCHANGED << server, pool, mainPc, cfgStep, started, threads, accepted >>

TargetRouteNext ==
  \/ add_any_path
  \/ add_any_path_prefix
  \/ route_target
  \/ forget_connection

TargetRouteSpec == Init /\ [][TargetRouteNext]_vars

(***************************************************************************)
(* C33                                                                     *)
(***************************************************************************)
TargetRouted == conn.kind = "target_routing"

\* C33: routing compares the rules against the percent-decoded path while
\* environ[path] keeps the raw bytes, and the target is split into path
\* and query on its raw bytes, before decoding: the result of routing is
\* the one of the rules over the decoded path (a request for an escaped
\* path is routed to the rule for the path it spells), and an encoded %3F
\* inside the path becomes a '?' of the decoded path without starting a
\* query string.  It holds of do_routing and of Router::route.
C33_RoutingOnDecodedPath ==
  TargetRouted =>
    LET raw == Before(conn.target, 63)
        decoded == [environ |-> EmptyMap, path |-> Unescaped(raw),
                    method |-> B(<<"g","e","t">>), body |-> << >>]
    IN  /\ conn.req.environ[K_path] = raw
        /\ conn.req.environ[K_query_string] = After(conn.target, 63)
        /\ conn.req.path = Unescaped(raw)
        /\ FoundFirst(conn.do_routing, rules.val, decoded)
        /\ NoMatchKinds(conn.do_routing, rules.val, decoded)
        /\ FoundFirst(conn.route, rules.val, decoded)
        /\ NoMatchKinds(conn.route, rules.val, decoded)

\* /%61 has been routed to the exact rule for /a, and its raw path kept
C33_Witness ==
  /\ TargetRouted
  /\ conn.target = B(<<"/","%","6","1">>)
  /\ Len(rules.val) = 1
  /\ ~rules.val[1].is_prefix /\ rules.val[1].path = B(<<"/","a">>)
  /\ conn.do_routing = FoundRule(rules.val[1].page_fn)
  /\ conn.req.environ[K_path] = B(<<"/","%","6","1">>)

\* /a/%3fb has been routed to the prefix rule for /a/: the escaped '?' is
\* in the decoded path and the query string is empty
C33_EscapedQuestionMark ==
  /\ TargetRouted
  /\ conn.target = B(<<"/","a","/","%","3","f","b">>)
  /\ conn.req.path = B(<<"/","a","/","?","b">>)
  /\ conn.req.environ[K_query_string] = << >>
  /\ conn.do_routing.kind = "FoundRule"

(***************************************************************************)
(* split_bytes_on on its own.                                              *)
(***************************************************************************)
\* the largest max_splits given to split_bytes_on
MaxSplits == 3

\* a space, a colon and a letter
FieldBytes == B(<<" ",":","a">>)

call_split_bytes_on ==
  /\ mainPc = "configure"
  /\ conn.kind = "none"
  /\ \E src \in BytesOver(FieldBytes, MaxBytes), b \in {32, 58},
        max_splits \in 0..MaxSplits :
       conn' = [kind |-> "split_bytes_on", input |-> src, b |-> b,
                max_splits |-> max_splits,
                result |-> split_bytes_on(src, b, max_splits)]
  /\ UNCHANGED << server, pool, mainPc, cfgStep, started, threads, accepted >>

SplitNext ==
  \/ call_split_bytes_on
  \/ forget_connection

SplitSpec == Init /\ [][SplitNext]_vars

(***************************************************************************)
(* C34                                                                     *)
(***************************************************************************)
SplitOnDone == conn.kind = "split_bytes_on"

\* C34: split_bytes_on(src, b, k) returns at most k+1 segments and splits
\* at the first k occurrences of b only: there is one segment more than
\* there are occurrences of b, up to k+1, and only the last of k+1
\* segments can contain b.  Empty segments are kept and consecutive
\* delimiters are not collapsed, so that joining the segments with the
\* byte b gives back src, for every src, b and k.
C34_SplitBytesOn ==
  SplitOnDone =>
    LET src == conn.input
        k == conn.max_splits
        ret == conn.result
        found == Cardinality({ i \in 1..Len(src) : src[i] = conn.b })
    IN  /\ Len(ret) <= k + 1
        /\ Len(ret) = (IF found < k THEN found ELSE k) + 1
        /\ \A n \in 1..Len(ret) :
             (\E i \in 1..Len(ret[n]) : ret[n][i] = conn.b) => n = k + 1
        /\ Joined(ret, << conn.b >>) = src

\* two empty segments are kept, and the third space is left in the last
\* segment
C34_Witness ==
  /\ SplitOnDone
  /\ conn.input = B(<<" "," ","a"," ">>)
  /\ conn.b = 32 /\ conn.max_splits = 2
  /\ conn.result = << << >>, << >>, B(<<"a"," ">>) >>

(***************************************************************************)
(* The parser as the connection uses it: a header block arrives in one     *)
(* read, read_request parses it, and an error of the reader is answered.   *)
(***************************************************************************)
\* parse on a header block, read_request on a stream that delivers the
\* block, and the arm of process_http_connection for the reader's result
read_and_answer ==
  /\ mainPc = "configure"
  /\ conn.kind = "none"
  /\ \E c \in ParseCases :
       LET request_bytes == HeaderBlock(c.tokens, c.headers)
           stream == [segs |-> << request_bytes >>, end |-> "eof",
                      wok |-> 2, log |-> << >>, out |-> << >>]
           rr == read_request(stream, MaxBodySize)
       IN  conn' = [kind |-> "parse_read", tokens |-> c.tokens,
                    headers |-> c.headers, input |-> request_bytes,
                    result |-> parse(request_bytes), reader |-> rr.res,
                    log |-> IF rr.res = "Ok" THEN rr.s.log
                            ELSE reader_error(rr).s.log]
  /\ UNCHANGED << server, pool, mainPc, cfgStep, started, threads, accepted >>

ParseReadNext ==
  \/ read_and_answer
  \/ forget_connection

ParseReadSpec == Init /\ [][ParseReadNext]_vars

(***************************************************************************)
(* C35                                                                     *)
(***************************************************************************)
ParsedAndRead == conn.kind = "parse_read"

\* the request line as parse sees it: cut at its first two spaces
ShapeBad(t) ==
  \/ Len(t) < 3
  \/ Len(t[1]) = 0
  \/ Len(t[2]) = 0
  \/ Len(RestOfLine(t)) = 0

\* the first check of parse that fails, "" when none does
FirstFailure(t, h) ==
  IF ShapeBad(t) THEN "BadRequestLine"
  ELSE IF ~KnownVersion(RestOfLine(t)) THEN "BadVersion"
  ELSE IF ~(t[2][1] = 47 \/ (t[2] = <<42>> /\ IsOptions(t[1])))
  THEN "InvalidAbsolutePath"
  ELSE IF IllFormed(h) = {} THEN ""
  ELSE LET line == h[First(IllFormed(h))]
       IN  IF \A i \in 1..Len(line) : line[i] # 58
           THEN "InvalidHeaderSeparator"
           ELSE "InvalidHeaderWhitespace"

\* C35: parse reports the first failing check in a fixed order and returns
\* no request on error: the shape of the request line (BadRequestLine)
\* before the protocol (BadVersion) before the request-target
\* (InvalidAbsolutePath) before the headers, and among the headers the
\* first offending line in arrival order decides between
\* InvalidHeaderSeparator and InvalidHeaderWhitespace.  A request with a
\* bad version and a bad header is therefore answered 505 and not 400:
\* BadVersion alone is answered 505, every other error of parse 400.
C35_FirstFailureReported ==
  ParsedAndRead =>
    LET failure == FirstFailure(conn.tokens, conn.headers)
        r == conn.result
    IN  /\ r.ok <=> failure = ""
        /\ r.err = failure
        /\ ~r.ok => (r.environ = EmptyMap /\ r.path = << >> /\ r.method = << >>)
        /\ FinalResponses(conn.log)
             = IF failure = "" THEN << >>
               ELSE IF failure = "BadVersion" THEN << 505 >>
               ELSE << 400 >>

\* a request with a bad version, a bad target and a bad header has been
\* answered 505
C35_Witness ==
  /\ ParsedAndRead
  /\ conn.tokens = << B(<<"G","E","T">>), B(<<"a">>),
                      B(<<"H","T","T","P","/","1",".","2">>) >>
  /\ conn.headers = << B(<<"A","B","C"," ","D","E","F">>) >>
  /\ conn.result.err = "BadVersion"
  /\ FinalOnWire(conn.log) = << 505 >>

(***************************************************************************)
(* Requests with one or several Content-Length headers: the header block   *)
(* arrives in one read and the body bytes are ready for the next.          *)
(***************************************************************************)
\* Content-Length headers in two spellings with two values, and another
\* header
LengthLines ==
  { N_ContentLength \o B(<<":"," ","1">>),
    N_ContentLength \o B(<<":"," ","2">>),
    B(<<"c","o","n","t","e","n","t","-","l","e","n","g","t","h",":","1">>),
    B(<<"c","o","n","t","e","n","t","-","l","e","n","g","t","h",":","2">>),
    B(<<"X",":"," ","1">>) }

\* read_request and the arm of process_http_connection for its result
read_lengths ==
  /\ mainPc = "configure"
  /\ conn.kind = "none"
  /\ \E h \in SeqsOf(LengthLines, 1, MaxHeaderLines) :
       LET request_bytes == HeaderBlock(<< M_POST, T_p, P_HTTP11 >>, h)
           stream == [segs |-> << request_bytes, Body(MaxBodySize) >>,
                      end |-> "eof", wok |-> 2, log |-> << >>,
                      out |-> << >>]
           rr == read_request(stream, MaxBodySize)
       IN  conn' = [kind |-> "lengths", headers |-> h,
                    environ |-> parse(request_bytes).environ,
                    reader |-> rr.res, body |-> rr.req.body,
                    log |-> IF rr.res = "Ok" THEN rr.s.log
                            ELSE reader_error(rr).s.log]
  /\ UNCHANGED << server, pool, mainPc, cfgStep, started, threads, accepted >>

LengthsNext ==
  \/ read_lengths
  \/ forget_connection

LengthsSpec == Init /\ [][LengthsNext]_vars

(***************************************************************************)
(* C36                                                                     *)
(***************************************************************************)
LengthsRead == conn.kind = "lengths"

\* the Content-Length header lines of the request, in order
LengthHeaders(h) ==
  SelectSeq(h, LAMBDA line : HeaderKey(line) = K_http_content_length)

\* C36: a request that carries the Content-Length header more than once
\* (even with identical values) is rejected with InvalidRequest and
\* answered 400, and no body is read: the repeated values are joined with
\* ',' and the joined value does not parse as an unsigned integer.  A
\* request that carries it once is read with its body.
C36_RepeatedContentLength ==
  LengthsRead =>
    LET lengths == LengthHeaders(conn.headers)
        reads == Cardinality(ReadsOf(conn.log))
    IN  /\ Len(lengths) >= 2 =>
             /\ conn.environ[K_http_content_length]
                  = Joined([i \in 1..Len(lengths) |->
                              Trimmed(After(lengths[i], 58))], <<44>>)
             /\ ~parse_u64(conn.environ[K_http_content_length]).some
             /\ conn.reader = "InvalidRequest"
             /\ FinalResponses(conn.log) = << 400 >>
             /\ reads = 1
        /\ Len(lengths) = 1 =>
             /\ conn.reader = "Ok"
             /\ Len(conn.body) = Trimmed(After(lengths[1], 58))[1] - 48
             /\ reads = 2

\* the same length twice, in two spellings of the name, with another
\* header in between: answered 400 after the one read of the headers
C36_Witness ==
  /\ LengthsRead
  /\ conn.headers
       = << N_ContentLength \o B(<<":"," ","2">>), B(<<"X",":"," ","1">>),
            B(<<"c","o","n","t","e","n","t","-","l","e","n","g","t","h",":","2">>) >>
  /\ conn.environ[K_http_content_length] = B(<<"2",",","2">>)
  /\ FinalOnWire(conn.log) = << 400 >>

(***************************************************************************)
(* Requests that expect 100 Continue: every request carries the Expect     *)
(* header; its version, its Content-Length, a Transfer-Encoding header and *)
(* an ill-formed header vary, and so does what the stream lets through.    *)
(***************************************************************************)
\* the headers that follow the Expect header: none, a Content-Length
\* within the maximum, above it, no number, repeated, a Transfer-Encoding
\* without and with a Content-Length, an ill-formed line without and with
\* a Content-Length
ExpectCases ==
  LET length == Header(N_ContentLength, Decimal(MaxBodySize))
      ill_formed == B(<<"A","B","C">>) \o CRLF
  IN  { << >>,
        length,
        Header(N_ContentLength, Decimal(MaxBodySize + 1)),
        Header(N_ContentLength, B(<<"x">>)),
        length \o length,
        TransferChunked,
        length \o TransferChunked,
        ill_formed,
        length \o ill_formed }

\* the Expect header in two spellings
ExpectHeaders ==
  { Expect100,
    Header(B(<<"e","x","p","e","c","t">>),
           B(<<"1","0","0","-","c","o","n","t","i","n","u","e">>)) }

\* read_request and the arm of process_http_connection for its result
read_expecting ==
  /\ mainPc = "configure"
  /\ conn.kind = "none"
  /\ \E method \in { M_GET, M_POST },
        version \in { P_HTTP11, B(<<"H","T","T","P","/","1",".","2">>) },
        expect \in ExpectHeaders,
        others \in ExpectCases,
        end \in {"eof", "err"},
        wok \in 0..2 :
       LET request_bytes == RequestLine(method, T_p, version) \o expect
                              \o others \o CRLF
           stream == [segs |-> << request_bytes, Body(MaxBodySize) >>,
                      end |-> end, wok |-> wok, log |-> << >>,
                      out |-> << >>]
           rr == read_request(stream, MaxBodySize)
       IN  conn' = [kind |-> "expecting", input |-> request_bytes,
                    has_length |->
                      K_http_content_length
                        \in DOMAIN parse(request_bytes).environ,
                    reader |-> rr.res,
                    log |-> IF rr.res = "Ok" THEN rr.s.log
                            ELSE reader_error(rr).s.log]
  /\ UNCHANGED << server, pool, mainPc, cfgStep, started, threads, accepted >>

ExpectNext ==
  \/ read_expecting
  \/ forget_connection

ExpectSpec == Init /\ [][ExpectNext]_vars

(***************************************************************************)
(* C37                                                                     *)
(***************************************************************************)
Expecting == conn.kind = "expecting"

\* the positions of the log where 100 Continue was handed to the stream
ContinuesOf(log) ==
  { i \in 1..Len(log) :
      log[i].op \in {"write", "write_err"} /\ log[i].data = Continue100 }

\* C37: 100 Continue is never written for a request that read_request
\* rejects (InvalidRequest, InvalidVersion, LengthRequired, TooLarge) nor
\* for a request without a Content-Length header, even when it carries
\* Expect: 100-continue; so an interim 100 is never followed by a 400,
\* 411, 413 or 505 generated by the reader.
C37_NoContinueBeforeRejection ==
  Expecting =>
    /\ conn.reader \in ReaderErrors => ContinuesOf(conn.log) = {}
    /\ ~conn.has_length => ContinuesOf(conn.log) = {}
    /\ ContinuesOf(conn.log) # {} =>
         /\ FinalResponses(conn.log) = << >>
         /\ conn.reader \in {"Ok", "IoError"}

\* a request that expects 100 Continue and announces too long a body has
\* been answered 413 at once
C37_Witness ==
  /\ Expecting
  /\ conn.reader = "TooLarge"
  /\ Len(conn.log) = 3
  /\ FinalOnWire(conn.log) = << 413 >>
  /\ ContinuesOf(conn.log) = {}

(***************************************************************************)
(* Headers named like the keys of the request line: parse is applied to    *)
(* valid request lines followed by headers named method, path, protocol    *)
(* and query_string in several spellings.                                  *)
(***************************************************************************)
\* the most header lines of a request with such headers
MaxNamedHeaders == 2

\* header lines whose names are the keys of the request line, a header
\* whose name is empty and an ordinary header
NamedHeaderLines ==
  { B(<<"m","e","t","h","o","d",":"," ","p","u","t">>),
    B(<<"P","a","t","h",":","/","x">>),
    B(<<"P","R","O","T","O","C","O","L",":"," ","h","2">>),
    B(<<"q","u","e","r","y","_","s","t","r","i","n","g",":","z">>),
    B(<<":","e">>),
    B(<<"H",":"," ","a">>) }

\* request lines that parse accepts
AcceptedLines ==
  { << m, p, v >> :
      m \in { B(<<"G","E","T">>), B(<<"o","P","T","I","O","N","S">>) },
      p \in { B(<<"/","a","?","b">>), B(<<"/","a">>), B(<<"*">>) },
      v \in { P_HTTP10, P_HTTP11 } }
    \ { << B(<<"G","E","T">>), B(<<"*">>), v >> : v \in { P_HTTP10, P_HTTP11 } }

\* parse is called on a request whose headers are named like the keys of
\* the request line
parse_named_headers ==
  /\ mainPc = "configure"
  /\ conn.kind = "none"
  /\ \E t \in AcceptedLines,
        h \in SeqsOf(NamedHeaderLines, 0, MaxNamedHeaders) :
       LET request_bytes == HeaderBlock(t, h)
       IN  conn' = [kind |-> "named_headers", tokens |-> t, headers |-> h,
                    input |-> request_bytes,
                    result |-> parse(request_bytes)]
  /\ UNCHANGED << server, pool, mainPc, cfgStep, started, threads, accepted >>

NamedNext ==
  \/ parse_named_headers
  \/ forget_connection

NamedSpec == Init /\ [][NamedNext]_vars

(***************************************************************************)
(* C38                                                                     *)
(***************************************************************************)
NamedParsed == conn.kind = "named_headers"

\* the keys that parse takes from the request line
LineKeys == { K_method, K_protocol, K_path, K_query_string }

\* C38: in every successfully parsed request environ contains the keys
\* method, protocol, path and query_string, and no request header can set
\* or overwrite them: their values are those of the request line, every
\* header is stored under a key that starts with http_, and a header named
\* method, path or protocol only creates http_method, http_path or
\* http_protocol.
C38_HeadersCannotSetLineKeys ==
  (NamedParsed /\ conn.result.ok) =>
    LET environ == conn.result.environ
        target == conn.tokens[2]
        star == target = <<42>>
    IN  /\ LineKeys \subseteq DOMAIN environ
        /\ environ[K_method] = into_ascii_lowercase(conn.tokens[1])
        /\ environ[K_protocol] = into_ascii_lowercase(conn.tokens[3])
        /\ environ[K_path] = IF star THEN target ELSE Before(target, 63)
        /\ environ[K_query_string] =
             IF star THEN << >> ELSE After(target, 63)
        /\ \A k \in (DOMAIN environ) \ LineKeys : StartsWith(k, K_http_)
        /\ \A i \in 1..Len(conn.headers) :
             /\ HeaderKey(conn.headers[i]) \in DOMAIN environ
             /\ HeaderKey(conn.headers[i]) \notin LineKeys
        /\ DOMAIN environ =
             LineKeys \cup { HeaderKey(conn.headers[i]) :
                               i \in 1..Len(conn.headers) }

\* a request with headers named method and Path has been parsed: the
\* method and the path are those of the request line
C38_Witness ==
  /\ NamedParsed
  /\ conn.result.ok
  /\ conn.tokens = << B(<<"G","E","T">>), B(<<"/","a","?","b">>), P_HTTP11 >>
  /\ conn.headers = << B(<<"m","e","t","h","o","d",":"," ","p","u","t">>),
                       B(<<"P","a","t","h",":","/","x">>) >>
  /\ conn.result.environ[K_method] = B(<<"g","e","t">>)
  /\ conn.result.environ[K_path] = B(<<"/","a">>)
  /\ conn.result.environ[K_http_ \o K_method] = B(<<"p","u","t">>)
  /\ conn.result.environ[K_http_ \o K_path] = B(<<"/","x">>)

(***************************************************************************)
(* C39                                                                     *)
(***************************************************************************)
\* accept has just returned an error to a worker
AcceptFailed == conn.kind = "accept_error"

\* as long as no connection was accepted, whatever accept returned to the
\* workers, every worker is in its loop and the supervisor has nothing to
\* replace
OnlyAcceptErrors ==
  accepted = 0 =>
    /\ \A t \in Workers : threads[t] = "accept"
    /\ watchdog = 0
    /\ mainPc # "respawn"
    /\ Len(threads) <= nr_threads

\* the step in which accept returns an error leaves the worker at accept,
\* and the counter and the supervisor as they are
AcceptErrorStep ==
  (~AcceptFailed /\ AcceptFailed') =>
    /\ threads' = threads
    /\ threads'[conn'.worker] = "accept"
    /\ watchdog' = watchdog
    /\ mainPc' = mainPc

\* a worker leaves its loop only by a connection whose handler panicked
LeavesLoopStep ==
  \A t \in Workers :
    (threads[t] = "accept" /\ threads'[t] # "accept") =>
      /\ conn'.kind = "connection"
      /\ conn'.worker = t
      /\ conn'.panic

\* C39: an error returned by accept does not terminate the worker and does
\* not change the thread-pool counter: the worker reports it and performs
\* another accept, so accept errors alone never trigger a respawn by the
\* supervisor.
C39_AcceptErrorsKeepWorker ==
  /\ []OnlyAcceptErrors
  /\ [][AcceptErrorStep /\ LeavesLoopStep]_vars

\* accept returned an error to the second worker while no connection had
\* been accepted: all workers are at accept and the supervisor waits
C39_Witness ==
  /\ AcceptFailed
  /\ conn.worker = 2
  /\ accepted = 0
  /\ Len(threads) = nr_threads
  /\ \A t \in Workers : threads[t] = "accept"
  /\ watchdog = 0
  /\ mainPc = "cv_wait"

=============================================================================
